---------------------------- MODULE Spec2Model ----------------------------
(***************************************************************************)
(* Model of the VGIK control core: the service manager                     *)
(* (core/base/service_manager) and the event system (core/base/events).    *)
(*                                                                         *)
(* The service manager is modelled at statement granularity: every C call  *)
(* is a frame on an explicit call stack and every action executes the code *)
(* of one frame up to its next call, callback or return.  A top-level API  *)
(* call is started by a Call* action while no call is in progress, runs to *)
(* completion (the code is single-threaded and callbacks do not re-enter   *)
(* the manager), reaches phase "done" with its return value in ret, and is *)
(* handed back to the caller by Finish.                                    *)
(***************************************************************************)
EXTENDS Integers, Sequences, FiniteSets, TLC

VARIABLES
    initialized,   \* g_service_manager.initialized
    services,      \* g_service_manager.services[0 .. service_count-1]
    clock,         \* what get_timestamp_ms() returns (CLOCK_REALTIME, ms)
    stack,         \* call stack of the API call in progress
    ret,           \* return value of the call that returned last
    phase,         \* "idle" | "run" | "done"
    op,            \* the top-level call in progress: [fn, name]
    pre,           \* services as they were when the top-level call began
    trace,         \* callbacks invoked by the top-level call, in order
    script,        \* position of a scripted caller (0 when calls are free)
    g_events,      \* the event system's global state (events.c)
    heap,          \* the queue nodes that are allocated: node id -> node
    bphase,        \* event system call in progress: "idle" | "drain" | "done"
    bop,           \* the event system call that runs or has just returned
    bret,          \* its return value
    processed,     \* vgik_events_process: its local counter
    drained,       \* events the current process() has dequeued, in order
    delivered,     \* handler invocations of the current process(), in order
    published,     \* events accepted since the queue was last found empty
                   \* (the callers tag their events with it)
    threads        \* threads inside enqueue_event: thread -> its locals

svars == <<initialized, services, clock, stack, ret, phase, op, pre, trace>>

bvars == <<g_events, heap, bphase, bop, bret, processed, drained, delivered,
           published, threads>>

\* what the code of the service manager never touches
outside == <<script, bvars>>

vars == <<svars, script, bvars>>

-----------------------------------------------------------------------------
(* Bounds of the model *)

\* last clock value the model lets the wall clock reach
MaxTime == 2

\* restart attempts after which the model stops ticking a service that has
\* no limit of its own (max_restart_attempts = 0)
CountCap == 2

\* capacity of the event queue in the model; it stands for
\* VGIK_EVENTS_QUEUE_SIZE (256)
QueueCap == 3

\* number of subscription slots in the model; it stands for
\* VGIK_EVENTS_MAX_SUBSCRIPTIONS (128)
SubSlots == 2

\* events accepted since the queue was last empty after which the model
\* publishes no more
MaxPublished == 4

\* subscription ids after which the model subscribes no more
MaxSubIds == 3

\* events a caller publishes between two drains when the events range
\* over the whole catalogue of types
FilterEvents == 2

\* depth of the call stack up to which a recursion is followed
MaxDepth == 9

-----------------------------------------------------------------------------
(* service_manager.h: types *)

STOPPED == "STOPPED"
STARTING == "STARTING"
RUNNING == "RUNNING"
STOPPING == "STOPPING"
FAILED == "FAILED"
RESTARTING == "RESTARTING"

ServiceStates == {STOPPED, STARTING, RUNNING, STOPPING, FAILED, RESTARTING}

VGIK_SERVICE_MAX_SERVICES == 64

\* (now - last) >= delay as the code computes it: the subtraction is uint64_t
\* and delay is uint32_t, so a clock that went backwards wraps to a value
\* above every delay.
ElapsedAtLeast(now, last, delay) ==
    IF now >= last THEN now - last >= delay ELSE TRUE

\* A descriptor as the caller hands it to vgik_service_register.  start_cb,
\* stop_cb and health_cb say whether the pointer is non-NULL; start_fails
\* says that the supplied start callback is one that fails on every call.
Descriptor(n, deps, auto, delay, max, failing) ==
    [name |-> n, start_cb |-> TRUE, stop_cb |-> TRUE, health_cb |-> TRUE,
     start_fails |-> failing,
     dependencies |-> deps, auto_restart |-> auto,
     restart_delay_ms |-> delay, max_restart_attempts |-> max,
     restart_count |-> 0, state |-> STOPPED, start_time |-> 0,
     last_restart_time |-> 0]

\* return values a callback can produce: 0 is success
CbResults == {0, -1}

StartCbResults(svc) == IF svc.start_fails THEN {-1} ELSE CbResults

-----------------------------------------------------------------------------
(* static helpers *)

\* find_service: index of the first entry of that name, 0 for NULL
FindService(svcs, name) ==
    IF \E k \in 1..Len(svcs) : svcs[k].name = name
    THEN CHOOSE k \in 1..Len(svcs) :
            /\ svcs[k].name = name
            /\ \A j \in 1..(k-1) : svcs[j].name # name
    ELSE 0

CheckDependencies_Always(svcs, idx) == TRUE

\* check_dependencies: every dependency is registered and RUNNING
CheckDependencies(svcs, idx) ==
    \A k \in 1..Len(svcs[idx].dependencies) :
        LET d == FindService(svcs, svcs[idx].dependencies[k])
        IN  d # 0 /\ svcs[d].state = RUNNING

StartIsNoop_RunningOnly(st) == st = RUNNING

StartIsNoop_Never(st) == FALSE

\* vgik_service_start: "already running or starting"
StartIsNoop(st) == st \in {RUNNING, STARTING}

StopIsNoop_FailedToo(st) == st \in {STOPPED, STOPPING, FAILED}

StopIsNoop_Never(st) == FALSE

\* vgik_service_stop: "already stopped or stopping"
StopIsNoop(st) == st \in {STOPPED, STOPPING}

LimitReached_OffByOne(svc) ==
    svc.max_restart_attempts > 0 /\ svc.restart_count > svc.max_restart_attempts

\* vgik_service_manager_process: the restart limit is used up
LimitReached(svc) ==
    svc.max_restart_attempts > 0 /\ svc.restart_count >= svc.max_restart_attempts

DelayElapsed_Always(svc, now) == TRUE

DelayElapsed_Never(svc, now) == FALSE

\* vgik_service_manager_process: the restart delay has passed
DelayElapsed(svc, now) ==
    \/ svc.last_restart_time = 0
    \/ ElapsedAtLeast(now, svc.last_restart_time, svc.restart_delay_ms)

StartOutcome_AlwaysRunning(r) == RUNNING

\* vgik_service_start: the state the start callback's result r leads to
StartOutcome(r) == IF r # 0 THEN FAILED ELSE RUNNING

StopOutcome_StaysStopping(r) == IF r # 0 THEN STOPPING ELSE STOPPED

\* vgik_service_stop: the state the stop callback's result r leads to
StopOutcome(r) == IF r # 0 THEN FAILED ELSE STOPPED

DepsAbort_Never(r) == FALSE

\* start_dependencies: a failed dependency ends the loop
DepsAbort(r) == r # 0

-----------------------------------------------------------------------------
(* call stack *)

Frame(fn, name) ==
    [fn |-> fn, pc |-> "entry", name |-> name, idx |-> 0, i |-> 1, cnt |-> 0,
     now |-> 0]

Top == stack[Len(stack)]

At(fn, pc) == stack # <<>> /\ Top.fn = fn /\ Top.pc = pc

Pop == SubSeq(stack, 1, Len(stack) - 1)

\* the running frame continues at pc (fields f updated)
Goto(f) == stack' = [stack EXCEPT ![Len(stack)] = f]

\* the running frame calls fn(name) and continues at f.pc afterwards
Call(f, fn, name) ==
    stack' = Append([stack EXCEPT ![Len(stack)] = f], Frame(fn, name))

\* the running frame returns v to its caller
Return(v) ==
    /\ stack' = Pop
    /\ ret' = v
    /\ phase' = IF Len(stack) = 1 THEN "done" ELSE phase

Invoked(cb, name, res) == [cb |-> cb, name |-> name, res |-> res]

Idle == phase = "idle" /\ stack = <<>>

\* a top-level API call enters the manager
Enter(fn, name) ==
    /\ Idle
    /\ stack' = <<Frame(fn, name)>>
    /\ phase' = "run"
    /\ op' = [fn |-> fn, name |-> name]
    /\ pre' = services
    /\ trace' = <<>>
    /\ UNCHANGED <<initialized, services, clock, ret>>

-----------------------------------------------------------------------------
(* vgik_service_start *)

StartEntry ==
    /\ At("start", "entry")
    /\ LET idx == FindService(services, Top.name)
           f == [Top EXCEPT !.idx = idx]
       IN  IF idx = 0
           THEN Return(-1) /\ UNCHANGED services
           ELSE IF StartIsNoop(services[idx].state)
           THEN Return(0) /\ UNCHANGED services
           ELSE IF ~CheckDependencies(services, idx)
           THEN /\ Call([f EXCEPT !.pc = "deps_ret"], "start_deps", Top.name)
                /\ UNCHANGED <<services, ret, phase>>
           ELSE /\ services' = [services EXCEPT ![idx].state = STARTING]
                /\ Goto([f EXCEPT !.pc = "call_cb"])
                /\ UNCHANGED <<ret, phase>>
    /\ UNCHANGED <<initialized, clock, op, pre, trace>>
    /\ UNCHANGED outside

\* start_dependencies(service) has returned
StartDepsRet ==
    /\ At("start", "deps_ret")
    /\ IF ret # 0
       THEN /\ services' = [services EXCEPT ![Top.idx].state = FAILED]
            /\ Return(-1)
       ELSE /\ services' = [services EXCEPT ![Top.idx].state = STARTING]
            /\ Goto([Top EXCEPT !.pc = "call_cb"])
            /\ UNCHANGED <<ret, phase>>
    /\ UNCHANGED <<initialized, clock, op, pre, trace>>
    /\ UNCHANGED outside

\* the state is STARTING: invoke start_cb and record the outcome
StartCallCb ==
    /\ At("start", "call_cb")
    /\ LET idx == Top.idx
           svc == services[idx]
       IN  IF svc.start_cb
           THEN \E r \in StartCbResults(svc) :
                  /\ trace' = Append(trace, Invoked("start", svc.name, r))
                  /\ IF r # 0
                     THEN /\ services' = [services EXCEPT
                                            ![idx].state = StartOutcome(r)]
                          /\ Return(r)
                     ELSE /\ services' = [services EXCEPT
                                            ![idx].state = StartOutcome(r),
                                            ![idx].start_time = clock]
                          /\ Return(0)
           ELSE /\ services' = [services EXCEPT ![idx].state = RUNNING,
                                                ![idx].start_time = clock]
                /\ Return(0)
                /\ UNCHANGED trace
    /\ UNCHANGED <<initialized, clock, op, pre>>
    /\ UNCHANGED outside

(* start_dependencies *)

StartDepsLoop ==
    /\ At("start_deps", "entry")
    /\ LET idx == FindService(services, Top.name)
           deps == services[idx].dependencies
       IN  IF Top.i > Len(deps)
           THEN Return(0)
           ELSE /\ Call([Top EXCEPT !.pc = "after", !.idx = idx],
                        "start", deps[Top.i])
                /\ UNCHANGED <<ret, phase>>
    /\ UNCHANGED <<initialized, services, clock, op, pre, trace>>
    /\ UNCHANGED outside

StartDepsAfter ==
    /\ At("start_deps", "after")
    /\ IF DepsAbort(ret)
       THEN Return(ret)
       ELSE /\ Goto([Top EXCEPT !.pc = "entry", !.i = Top.i + 1])
            /\ UNCHANGED <<ret, phase>>
    /\ UNCHANGED <<initialized, services, clock, op, pre, trace>>
    /\ UNCHANGED outside

-----------------------------------------------------------------------------
(* vgik_service_stop *)

StopEntry ==
    /\ At("stop", "entry")
    /\ LET idx == FindService(services, Top.name)
       IN  IF idx = 0
           THEN Return(-1) /\ UNCHANGED services
           ELSE IF StopIsNoop(services[idx].state)
           THEN Return(0) /\ UNCHANGED services
           ELSE /\ services' = [services EXCEPT ![idx].state = STOPPING]
                /\ Goto([Top EXCEPT !.pc = "call_cb", !.idx = idx])
                /\ UNCHANGED <<ret, phase>>
    /\ UNCHANGED <<initialized, clock, op, pre, trace>>
    /\ UNCHANGED outside

AfterStop_Cascade(svcs, idx, r) ==
    [k \in 1..Len(svcs) |->
        IF k = idx \/ \E j \in 1..Len(svcs[k].dependencies) :
                         svcs[k].dependencies[j] = svcs[idx].name
        THEN [svcs[k] EXCEPT !.state = StopOutcome(r),
                             !.start_time = IF r # 0 THEN @ ELSE 0]
        ELSE svcs[k]]

\* vgik_service_stop: the table once stop_cb has returned r
AfterStop(svcs, idx, r) ==
    IF r # 0
    THEN [svcs EXCEPT ![idx].state = StopOutcome(r)]
    ELSE [svcs EXCEPT ![idx].state = StopOutcome(r), ![idx].start_time = 0]

StopCallCb ==
    /\ At("stop", "call_cb")
    /\ LET idx == Top.idx
           svc == services[idx]
       IN  IF svc.stop_cb
           THEN \E r \in CbResults :
                  /\ trace' = Append(trace, Invoked("stop", svc.name, r))
                  /\ services' = AfterStop(services, idx, r)
                  /\ Return(r)
           ELSE /\ services' = [services EXCEPT ![idx].state = STOPPED,
                                                ![idx].start_time = 0]
                /\ Return(0)
                /\ UNCHANGED trace
    /\ UNCHANGED <<initialized, clock, op, pre>>
    /\ UNCHANGED outside

-----------------------------------------------------------------------------
(* vgik_service_restart *)

RestartEntry ==
    /\ At("restart", "entry")
    /\ Call([Top EXCEPT !.pc = "after_stop"], "stop", Top.name)
    /\ UNCHANGED <<initialized, services, clock, ret, phase, op, pre, trace>>
    /\ UNCHANGED outside

RestartAbort_Never(r) == FALSE

\* vgik_service_restart: the stop step failed
RestartAbort(r) == r # 0

RestartAfterStop ==
    /\ At("restart", "after_stop")
    /\ IF RestartAbort(ret)
       THEN Return(ret)
       ELSE /\ Call([Top EXCEPT !.pc = "after_start"], "start", Top.name)
            /\ UNCHANGED <<ret, phase>>
    /\ UNCHANGED <<initialized, services, clock, op, pre, trace>>
    /\ UNCHANGED outside

RestartAfterStart ==
    /\ At("restart", "after_start")
    /\ Return(ret)
    /\ UNCHANGED <<initialized, services, clock, op, pre, trace>>
    /\ UNCHANGED outside

-----------------------------------------------------------------------------
(* vgik_service_start_all, vgik_service_stop_all *)

\* one iteration of the loop of start_all ("start") or stop_all ("stop")
AllLoop(fn, callee) ==
    /\ At(fn, "entry")
    /\ IF Top.i > Len(services)
       THEN Return(Top.cnt)
       ELSE /\ Call([Top EXCEPT !.pc = "after"], callee, services[Top.i].name)
            /\ UNCHANGED <<ret, phase>>
    /\ UNCHANGED <<initialized, services, clock, op, pre, trace>>
    /\ UNCHANGED outside

AllAfter_CountAll(fn) ==
    /\ At(fn, "after")
    /\ Goto([Top EXCEPT !.pc = "entry", !.i = Top.i + 1, !.cnt = Top.cnt + 1])
    /\ UNCHANGED <<initialized, services, clock, ret, phase, op, pre, trace>>
    /\ UNCHANGED outside

\* the individual call has returned: count it if it succeeded, go on
AllAfter(fn) ==
    /\ At(fn, "after")
    /\ Goto([Top EXCEPT !.pc = "entry", !.i = Top.i + 1,
                        !.cnt = IF ret = 0 THEN Top.cnt + 1 ELSE Top.cnt])
    /\ UNCHANGED <<initialized, services, clock, ret, phase, op, pre, trace>>
    /\ UNCHANGED outside

StartAllLoop == AllLoop("start_all", "start")

StartAllAfter == AllAfter("start_all")

StopAllLoop == AllLoop("stop_all", "stop")

StopAllAfter == AllAfter("stop_all")

-----------------------------------------------------------------------------
(* vgik_service_manager_process: the periodic tick *)

AfterHealth_ResetWhenHealthy(svc, h) ==
    IF h = 1
    THEN [svc EXCEPT !.restart_count = 0, !.last_restart_time = 0]
    ELSE svc

AfterHealth_MarkFailed(svc, h) ==
    IF h = 0 THEN [svc EXCEPT !.state = FAILED] ELSE svc

\* the service after its health check returned h (0: unhealthy): the body
\* of "if (!vgik_service_is_healthy(...))" is empty
AfterHealth(svc, h) == svc

ProcessEntry ==
    /\ At("process", "entry")
    /\ IF ~initialized
       THEN Return(0)
       ELSE /\ Goto([Top EXCEPT !.pc = "loop", !.now = clock])
            /\ UNCHANGED <<ret, phase>>
    /\ UNCHANGED <<initialized, services, clock, op, pre, trace>>
    /\ UNCHANGED outside

\* the body of the for loop for services[i]
ProcessVisit ==
    /\ At("process", "loop")
    /\ IF Top.i > Len(services)
       THEN Return(0) /\ UNCHANGED <<services, trace>>
       ELSE LET svc == services[Top.i]
                next == [Top EXCEPT !.i = Top.i + 1]
            IN  IF svc.state = RUNNING
                THEN \* vgik_service_is_healthy: the result is not acted upon
                     /\ IF svc.health_cb
                        THEN \E h \in {0, 1} :
                               /\ trace' = Append(trace,
                                               Invoked("health", svc.name, h))
                               /\ services' = [services EXCEPT
                                                ![Top.i] = AfterHealth(svc, h)]
                        ELSE UNCHANGED <<trace, services>>
                     /\ Goto(next)
                     /\ UNCHANGED <<ret, phase>>
                ELSE IF svc.auto_restart /\ svc.state = FAILED
                        /\ ~LimitReached(svc) /\ DelayElapsed(svc, Top.now)
                THEN /\ services' = [services EXCEPT
                            ![Top.i].restart_count = svc.restart_count + 1,
                            ![Top.i].last_restart_time = Top.now,
                            ![Top.i].state = RESTARTING]
                     /\ Call([Top EXCEPT !.pc = "after_restart"],
                             "start", svc.name)
                     /\ UNCHANGED <<trace, ret, phase>>
                ELSE /\ Goto(next)
                     /\ UNCHANGED <<services, trace, ret, phase>>
    /\ UNCHANGED <<initialized, clock, op, pre>>
    /\ UNCHANGED outside

\* vgik_service_start returned: its result is ignored
ProcessAfterRestart ==
    /\ At("process", "after_restart")
    /\ Goto([Top EXCEPT !.pc = "loop", !.i = Top.i + 1])
    /\ UNCHANGED <<initialized, services, clock, ret, phase, op, pre, trace>>
    /\ UNCHANGED outside

-----------------------------------------------------------------------------
(* vgik_service_get_state, vgik_service_is_healthy *)

\* vgik_service_state_t: the value of each enumerator
StateCode(st) ==
    CASE st = STOPPED -> 0
      [] st = STARTING -> 1
      [] st = RUNNING -> 2
      [] st = STOPPING -> 3
      [] st = FAILED -> 4
      [] st = RESTARTING -> 5

GetState_UnknownStopped(svcs, name) ==
    IF FindService(svcs, name) = 0 THEN StateCode(STOPPED)
    ELSE StateCode(svcs[FindService(svcs, name)].state)

\* vgik_service_get_state(name): the value returned
GetState(svcs, name) ==
    IF FindService(svcs, name) = 0 THEN StateCode(FAILED)
    ELSE StateCode(svcs[FindService(svcs, name)].state)

\* vgik_service_is_healthy(name): the health callback is called
AsksHealth(svcs, name) ==
    /\ FindService(svcs, name) # 0
    /\ svcs[FindService(svcs, name)].state = RUNNING
    /\ svcs[FindService(svcs, name)].health_cb

IsHealthy_AnyState(svcs, name, h) ==
    IF FindService(svcs, name) = 0 THEN 0
    ELSE IF svcs[FindService(svcs, name)].health_cb THEN h
    ELSE 1

\* vgik_service_is_healthy(name): the value returned, 1 for true, when the
\* health callback, if called, returns h
IsHealthy(svcs, name, h) ==
    IF FindService(svcs, name) = 0 THEN 0
    ELSE IF svcs[FindService(svcs, name)].state # RUNNING THEN 0
    ELSE IF svcs[FindService(svcs, name)].health_cb THEN h
    ELSE 1

\* a query is called and returns
Query(fn, name, r, calls) ==
    /\ Idle
    /\ op' = [fn |-> fn, name |-> name]
    /\ pre' = services
    /\ trace' = calls
    /\ ret' = r
    /\ phase' = "done"
    /\ UNCHANGED <<initialized, services, clock, stack>>
    /\ UNCHANGED outside

-----------------------------------------------------------------------------
(* vgik_service_register, vgik_service_unregister, init, deinit *)

\* the array without entry idx, the later entries shifted down
RemoveAt(svcs, idx) ==
    [k \in 1..(Len(svcs) - 1) |-> IF k < idx THEN svcs[k] ELSE svcs[k + 1]]

Stored_AsGiven(d) == d

\* what register stores: a copy with the internal fields reset
Stored(d) ==
    [d EXCEPT !.state = STOPPED, !.start_time = 0,
              !.last_restart_time = 0, !.restart_count = 0]

RegisterResult_NoDuplicateCheck(d) ==
    IF ~initialized THEN -1
    ELSE IF Len(services) >= VGIK_SERVICE_MAX_SERVICES THEN -1
    ELSE 0

\* vgik_service_register: the checks before the copy
RegisterResult(d) ==
    IF ~initialized THEN -1
    ELSE IF FindService(services, d.name) # 0 THEN -1
    ELSE IF Len(services) >= VGIK_SERVICE_MAX_SERVICES THEN -1
    ELSE 0

\* vgik_service_register(&d): no call, no callback, so one step
Register(d) ==
    /\ Idle
    /\ phase' = "done"
    /\ op' = [fn |-> "register", name |-> d.name]
    /\ pre' = services
    /\ trace' = <<>>
    /\ ret' = RegisterResult(d)
    /\ services' = IF RegisterResult(d) = 0
                   THEN Append(services, Stored(d))
                   ELSE services
    /\ UNCHANGED <<initialized, clock, stack>>
    /\ UNCHANGED outside

UnregisterEntry ==
    /\ At("unregister", "entry")
    /\ LET idx == FindService(services, Top.name)
       IN  IF idx = 0
           THEN Return(-1) /\ UNCHANGED services
           ELSE IF services[idx].state = RUNNING
           THEN /\ Call([Top EXCEPT !.pc = "after_stop", !.idx = idx],
                        "stop", Top.name)
                /\ UNCHANGED <<services, ret, phase>>
           ELSE /\ services' = RemoveAt(services, idx)
                /\ Return(0)
    /\ UNCHANGED <<initialized, clock, op, pre, trace>>
    /\ UNCHANGED outside

UnregisterAfterStop ==
    /\ At("unregister", "after_stop")
    /\ services' = RemoveAt(services, Top.idx)
    /\ Return(0)
    /\ UNCHANGED <<initialized, clock, op, pre, trace>>
    /\ UNCHANGED outside

\* vgik_service_manager_init
ManagerInit ==
    /\ Idle
    /\ phase' = "done"
    /\ op' = [fn |-> "init", name |-> ""]
    /\ pre' = services
    /\ trace' = <<>>
    /\ ret' = 0
    /\ initialized' = TRUE
    /\ services' = IF initialized THEN services ELSE <<>>
    /\ UNCHANGED <<clock, stack>>
    /\ UNCHANGED outside

DeinitEntry ==
    /\ At("deinit", "entry")
    /\ IF ~initialized
       THEN Return(0)
       ELSE /\ Call([Top EXCEPT !.pc = "after_stop_all"], "stop_all", "")
            /\ UNCHANGED <<ret, phase>>
    /\ UNCHANGED <<initialized, services, clock, op, pre, trace>>
    /\ UNCHANGED outside

DeinitAfterStopAll ==
    /\ At("deinit", "after_stop_all")
    /\ services' = <<>>
    /\ initialized' = FALSE
    /\ Return(0)
    /\ UNCHANGED <<clock, op, pre, trace>>
    /\ UNCHANGED outside

-----------------------------------------------------------------------------
(* events.h / events.c: the event system *)

VGIK_EVENT_CUSTOM == "CUSTOM"

EventTypes ==
    { "NETWORK_INTERFACE_UP", "NETWORK_INTERFACE_DOWN",
      "NETWORK_CONNECTION_ESTABLISHED", "NETWORK_CONNECTION_LOST",
      "CONFIG_CHANGED", "FIRMWARE_UPDATE_STARTED",
      "FIRMWARE_UPDATE_COMPLETED", "FIRMWARE_UPDATE_FAILED",
      "SERVICE_STARTED", "SERVICE_STOPPED", "SERVICE_CRASHED",
      "SYSTEM_REBOOT", VGIK_EVENT_CUSTOM }

VGIK_EVENT_PRIORITY_LOW == 0
VGIK_EVENT_PRIORITY_NORMAL == 1
VGIK_EVENT_PRIORITY_HIGH == 2
VGIK_EVENT_PRIORITY_CRITICAL == 3

Priorities == VGIK_EVENT_PRIORITY_LOW..VGIK_EVENT_PRIORITY_CRITICAL

\* a node id that is no node
NULL == 0

\* an event as a caller builds it: data says whether payload bytes are
\* attached, source is the caller's tag
Event(type, priority, data, source) ==
    [type |-> type, priority |-> priority, timestamp |-> 0, data |-> data,
     source |-> source]

\* the event field of a node that holds no event (a pooled node: the code
\* never reads it before overwriting it)
NoEvent == Event("", 0, FALSE, 0)

EmptySlot == [id |-> 0, type |-> "", handler |-> "NULL", active |-> FALSE]

\* g_events as the static initializer leaves it
EventsZero ==
    [initialized |-> FALSE,
     subscriptions |-> [k \in 1..SubSlots |-> EmptySlot],
     next_subscription_id |-> 1,
     queue_head |-> NULL, queue_tail |-> NULL, queue_size |-> 0,
     node_pool |-> NULL]

\* malloc: the address of a new node
Fresh(h) ==
    CHOOSE n \in 1..(Cardinality(DOMAIN h) + 1) :
        /\ n \notin DOMAIN h
        /\ \A m \in 1..(n - 1) : m \in DOMAIN h

\* the memory h with node n written
Store(h, n, node) ==
    [x \in DOMAIN h \cup {n} |-> IF x = n THEN node ELSE h[x]]

\* free(n)
Release(h, n) == [x \in DOMAIN h \ {n} |-> h[x]]

KeepsAhead_Strict(queued, new) == queued > new

\* enqueue_event: a queued event of priority queued stays ahead of a new
\* event of priority new
KeepsAhead(queued, new) == queued >= new

\* enqueue_event: the while loop; the node after which the new one goes,
\* NULL to put it at the head
RECURSIVE InsertAfter(_, _, _, _)
InsertAfter(h, prev, current, priority) ==
    IF current # NULL /\ KeepsAhead(h[current].event.priority, priority)
    THEN InsertAfter(h, current, h[current].next, priority)
    ELSE prev

QueueFull_OffByOne(g) == g.queue_size > QueueCap

QueueFull_Never(g) == FALSE

\* enqueue_event: the capacity check (VGIK_EVENTS_QUEUE_SIZE, scaled down to
\* QueueCap)
QueueFull(g) == g.queue_size >= QueueCap

Pooled_Never(g) == FALSE

\* create_queue_node: the pool has a node to reuse
Pooled(g) == g.node_pool # NULL

\* enqueue_event(event) at time now; mem tells which allocation fails, if
\* any: "node" (the node), "data" (the copy of the payload) or "ok".
\* The result is [g, h, ret].
Enqueue(g, h, event, now, mem) ==
    IF QueueFull(g)
    THEN [g |-> g, h |-> h, ret |-> -1]
    ELSE IF ~Pooled(g) /\ mem = "node"
    THEN [g |-> g, h |-> h, ret |-> -1]
    ELSE
      LET pooled == Pooled(g)
          node == IF pooled THEN g.node_pool ELSE Fresh(h)
          g1 == IF pooled
                THEN [g EXCEPT !.node_pool = h[node].next]
                ELSE g
      IN  IF event.data /\ mem = "data"
          THEN \* free(node): the node is lost to the pool as well
               [g |-> g1, h |-> Release(h, node), ret |-> -1]
          ELSE
            LET ev == [event EXCEPT !.timestamp = now]
                prev == InsertAfter(h, NULL, g1.queue_head, event.priority)
            IN  IF g1.queue_head = NULL
                THEN [g |-> [g1 EXCEPT !.queue_head = node,
                                       !.queue_tail = node,
                                       !.queue_size = g.queue_size + 1],
                      h |-> Store(h, node, [event |-> ev, next |-> NULL]),
                      ret |-> 0]
                ELSE IF prev # NULL
                THEN LET after == h[prev].next
                         h1 == Store(h, node, [event |-> ev, next |-> after])
                     IN  [g |-> [g1 EXCEPT
                                   !.queue_tail = IF after = NULL THEN node
                                                  ELSE g1.queue_tail,
                                   !.queue_size = g.queue_size + 1],
                          h |-> [h1 EXCEPT ![prev].next = node],
                          ret |-> 0]
                ELSE [g |-> [g1 EXCEPT !.queue_head = node,
                                       !.queue_size = g.queue_size + 1],
                      h |-> Store(h, node,
                                  [event |-> ev, next |-> g1.queue_head]),
                      ret |-> 0]

Dequeue_KeepTail(g, h) ==
    IF g.queue_head = NULL
    THEN [g |-> g, h |-> h, ret |-> -1, event |-> NoEvent]
    ELSE [g |-> [g EXCEPT !.queue_head = h[g.queue_head].next,
                          !.queue_size = g.queue_size - 1,
                          !.node_pool = g.queue_head],
          h |-> [h EXCEPT ![g.queue_head] = [event |-> NoEvent,
                                             next |-> g.node_pool]],
          ret |-> 0,
          event |-> h[g.queue_head].event]

\* dequeue_event(&event): the result is [g, h, ret, event]; the node goes to
\* the pool (free_queue_node)
Dequeue(g, h) ==
    IF g.queue_head = NULL
    THEN [g |-> g, h |-> h, ret |-> -1, event |-> NoEvent]
    ELSE LET node == g.queue_head
             rest == h[node].next
         IN  [g |-> [g EXCEPT !.queue_head = rest,
                              !.queue_tail = IF rest = NULL THEN NULL
                                             ELSE g.queue_tail,
                              !.queue_size = g.queue_size - 1,
                              !.node_pool = node],
              h |-> [h EXCEPT ![node] = [event |-> NoEvent,
                                         next |-> g.node_pool]],
              ret |-> 0,
              event |-> h[node].event]

Matches_All(sub, event) == sub.active

Matches_Cancelled(sub, event) ==
    sub.type = VGIK_EVENT_CUSTOM \/ sub.type = event.type

Matches_ExactOnly(sub, event) == sub.active /\ sub.type = event.type

\* vgik_events_process: the subscription in this slot gets the event
Matches(sub, event) ==
    /\ sub.active
    /\ sub.type = VGIK_EVENT_CUSTOM \/ sub.type = event.type

\* the event an "echo" handler publishes when it is handed event
Echo(event, tag) == Event(event.type, event.priority, FALSE, tag)

\* the handlers that publish from inside the drain: "echo" answers with an
\* event like the one it got, "react" with a CONFIG_CHANGED event
Publishing == {"echo", "react"}

\* the event a publishing handler publishes when it is handed event
Reaction(handler, event, tag) ==
    IF handler = "echo" THEN Echo(event, tag)
    ELSE Event("CONFIG_CHANGED", VGIK_EVENT_PRIORITY_NORMAL, FALSE, tag)

\* vgik_events_process: the for loop over the slots from slot k on, for one
\* dequeued event.  st is [g, h, log, tag]: the event system, the handler
\* invocations so far and the number of publish calls so far.  A "quiet"
\* handler returns at once, a publishing handler publishes one event.
RECURSIVE Dispatch(_, _, _)
Dispatch(st, event, k) ==
    IF k > SubSlots THEN st
    ELSE LET sub == st.g.subscriptions[k]
         IN  IF Matches(sub, event) /\ sub.handler # "NULL"
             THEN LET log == Append(st.log,
                                    [id |-> sub.id, slot |-> k,
                                     source |-> event.source,
                                     type |-> event.type])
                  IN  IF sub.handler \in Publishing
                      THEN LET r == Enqueue(st.g, st.h,
                                            Reaction(sub.handler, event,
                                                     st.tag + 1),
                                            event.timestamp, "ok")
                           IN  Dispatch([g |-> r.g, h |-> r.h, log |-> log,
                                         tag |-> IF r.ret = 0 THEN st.tag + 1
                                                 ELSE st.tag],
                                        event, k + 1)
                      ELSE Dispatch([st EXCEPT !.log = log], event, k + 1)
             ELSE Dispatch(st, event, k + 1)

\* publishing handlers that the event would reach
Echoes(g, event) ==
    Cardinality({ k \in 1..SubSlots :
                    /\ Matches(g.subscriptions[k], event)
                    /\ g.subscriptions[k].handler \in Publishing })

BusIdle == bphase = "idle"

\* an event system call that runs in one step returns
BusReturn(fn, r) ==
    /\ bphase' = "done"
    /\ bop' = fn
    /\ bret' = r
    /\ UNCHANGED <<processed, drained, delivered>>

\* vgik_events_init
EventsInit ==
    /\ BusIdle
    /\ g_events' = [g_events EXCEPT !.initialized = TRUE]
    /\ BusReturn("init", 0)
    /\ UNCHANGED <<heap, published, svars, script, threads>>

\* vgik_event_publish(&event)
Publish(event, mem) ==
    /\ BusIdle
    /\ published < MaxPublished
    /\ IF ~g_events.initialized
       THEN /\ BusReturn("publish", -1)
            /\ UNCHANGED <<g_events, heap, published>>
       ELSE LET r == Enqueue(g_events, heap,
                             [event EXCEPT !.source = published + 1],
                             clock, mem)
            IN  /\ g_events' = r.g
                /\ heap' = r.h
                /\ published' = IF r.ret = 0 THEN published + 1
                                ELSE published
                /\ BusReturn("publish", r.ret)
    /\ UNCHANGED <<svars, script, threads>>

SubscribeRefused_NullOnly(g, handler) == handler = "NULL"

\* vgik_event_subscribe: the check of the arguments and of the system
SubscribeRefused(g, handler) == handler = "NULL" \/ ~g.initialized

FreeSlot_Highest(g) ==
    LET free == { k \in 1..SubSlots : ~g.subscriptions[k].active }
    IN  IF free = {} THEN 0
        ELSE CHOOSE x \in free : \A y \in free : x >= y

\* vgik_event_subscribe: the slot the for loop stops at, 0 when it runs to
\* the end
FreeSlot(g) ==
    LET free == { k \in 1..SubSlots : ~g.subscriptions[k].active }
    IN  IF free = {} THEN 0
        ELSE CHOOSE x \in free : \A y \in free : x <= y

\* vgik_event_subscribe(type, handler, user_data)
Subscribe(type, handler) ==
    /\ BusIdle
    /\ g_events.next_subscription_id <= MaxSubIds
    /\ IF SubscribeRefused(g_events, handler) \/ FreeSlot(g_events) = 0
       THEN /\ BusReturn("subscribe", -1)
            /\ UNCHANGED g_events
       ELSE LET k == FreeSlot(g_events)
                id == g_events.next_subscription_id
            IN  /\ g_events' =
                      [g_events EXCEPT
                         !.next_subscription_id = id + 1,
                         !.subscriptions[k] =
                             [id |-> id, type |-> type,
                              handler |-> handler, active |-> TRUE]]
                /\ BusReturn("subscribe", id)
    /\ UNCHANGED <<heap, published, svars, script, threads>>

UnsubscribeHit_Inactive(g, id) ==
    { k \in 1..SubSlots : g.subscriptions[k].id = id }

\* vgik_event_unsubscribe: the slots the condition of the loop accepts
UnsubscribeHit(g, id) ==
    { k \in 1..SubSlots :
        g.subscriptions[k].active /\ g.subscriptions[k].id = id }

\* vgik_event_unsubscribe(id)
Unsubscribe(id) ==
    /\ BusIdle
    /\ LET hit == UnsubscribeHit(g_events, id)
       IN  IF hit = {}
           THEN /\ BusReturn("unsubscribe", -1)
                /\ UNCHANGED g_events
           ELSE LET k == CHOOSE x \in hit : \A y \in hit : x <= y
                IN  /\ g_events' =
                          [g_events EXCEPT !.subscriptions[k].active = FALSE]
                    /\ BusReturn("unsubscribe", 0)
    /\ UNCHANGED <<heap, published, svars, script, threads>>

\* vgik_events_process is called
ProcessBegin ==
    /\ BusIdle
    /\ bop' = "process"
    /\ processed' = 0
    /\ drained' = <<>>
    /\ delivered' = <<>>
    /\ IF ~g_events.initialized
       THEN bphase' = "done" /\ bret' = 0
       ELSE bphase' = "drain" /\ UNCHANGED bret
    /\ UNCHANGED <<g_events, heap, published, svars, script, threads>>

\* vgik_events_process: one turn of the while loop
ProcessTurn ==
    /\ bphase = "drain"
    /\ LET d == Dequeue(g_events, heap)
       IN  IF d.ret # 0
           THEN /\ bphase' = "done"
                /\ bret' = processed
                /\ UNCHANGED <<g_events, heap, processed, drained, delivered,
                               published>>
           ELSE /\ published + Echoes(d.g, d.event) <= MaxPublished
                /\ LET st == Dispatch([g |-> d.g, h |-> d.h,
                                       log |-> delivered, tag |-> published],
                                      d.event, 1)
                   IN  /\ g_events' = st.g
                       /\ heap' = st.h
                       /\ delivered' = st.log
                       /\ published' = st.tag
                /\ drained' = Append(drained, d.event)
                /\ processed' = processed + 1
                /\ UNCHANGED <<bphase, bret>>
    /\ UNCHANGED <<bop, svars, script, threads>>

DrainAll_One(g, h) ==
    LET d == Dequeue(g, h)
    IN  IF d.ret # 0 THEN [g |-> g, h |-> h] ELSE [g |-> d.g, h |-> d.h]

\* dequeue_event until the queue is empty, the events dropped
RECURSIVE DrainAll(_, _)
DrainAll(g, h) ==
    LET d == Dequeue(g, h)
    IN  IF d.ret # 0 THEN [g |-> g, h |-> h] ELSE DrainAll(d.g, d.h)

\* vgik_events_clear
Clear ==
    /\ BusIdle
    /\ g_events' = DrainAll(g_events, heap).g
    /\ heap' = DrainAll(g_events, heap).h
    /\ BusReturn("clear", 0)
    /\ UNCHANGED <<published, svars, script, threads>>

\* vgik_events_deinit
EventsDeinit ==
    /\ BusIdle
    /\ IF ~g_events.initialized
       THEN UNCHANGED <<g_events, heap>>
       ELSE LET c == DrainAll(g_events, heap)
            IN  /\ g_events' =
                      [c.g EXCEPT
                         !.node_pool = NULL,
                         !.subscriptions =
                             [k \in 1..SubSlots |->
                                 [c.g.subscriptions[k] EXCEPT
                                     !.active = FALSE]],
                         !.initialized = FALSE]
                \* every node is in the pool by now and the pool is freed
                /\ heap' = << >>
    /\ BusReturn("deinit", 0)
    /\ UNCHANGED <<published, svars, script, threads>>

\* the event system call has returned to its caller
BusFinish ==
    /\ bphase = "done"
    /\ bphase' = "idle"
    /\ bop' = ""
    /\ bret' = 0
    /\ processed' = 0
    /\ drained' = <<>>
    /\ delivered' = <<>>
    /\ published' = IF g_events.queue_size = 0 THEN 0 ELSE published
    /\ UNCHANGED <<g_events, heap, svars, script, threads>>

\* events the callers of the model publish
PublishedTypes == {"CONFIG_CHANGED", "SERVICE_CRASHED"}

CallPublish ==
    \E t \in PublishedTypes, p \in Priorities, mem \in {"ok", "node", "data"} :
        Publish(Event(t, p, t = "CONFIG_CHANGED", 0), mem)

CallSubscribe ==
    \E t \in {"CONFIG_CHANGED", VGIK_EVENT_CUSTOM}, hd \in {"quiet"} :
        Subscribe(t, hd)

CallUnsubscribe == \E id \in 1..MaxSubIds : Unsubscribe(id)

\* the threads that may call into the event system
Threads == 1..2

\* no thread is inside enqueue_event: the locals of lines 110-169 are dead
NoThreads ==
    [t \in Threads |->
        [pc |-> "out", priority |-> 0, node |-> NULL, prev |-> NULL,
         current |-> NULL, size |-> 0, result |-> 0, met |-> FALSE]]

BusInit ==
    /\ g_events = EventsZero
    /\ heap = << >>
    /\ bphase = "idle"
    /\ bop = ""
    /\ bret = 0
    /\ processed = 0
    /\ drained = <<>>
    /\ delivered = <<>>
    /\ published = 0
    /\ threads = NoThreads

-----------------------------------------------------------------------------
(* the callers of the API and the environment *)

Names == {"A", "B"}

\* the descriptors bootstrap code registers
Catalogue ==
    { Descriptor("A", <<"B">>, TRUE, 1, 0, FALSE),
      Descriptor("B", <<>>, TRUE, 0, 2, FALSE) }

\* the model stops ticking once a service without a limit has used CountCap
\* attempts
TickAllowed ==
    \A k \in 1..Len(services) :
        services[k].max_restart_attempts = 0 =>
            services[k].restart_count < CountCap

\* the names a caller may pass: those of Names, registered or not, and every
\* name the registry mentions
KnownNames ==
    Names \cup { services[k].name : k \in 1..Len(services) }
          \cup UNION { { services[k].dependencies[j] :
                           j \in 1..Len(services[k].dependencies) } :
                       k \in 1..Len(services) }

CallStart == \E n \in KnownNames : Enter("start", n) /\ UNCHANGED outside

CallStop == \E n \in KnownNames : Enter("stop", n) /\ UNCHANGED outside

CallRestart ==
    \E n \in KnownNames : Enter("restart", n) /\ UNCHANGED outside

CallUnregister ==
    \E n \in KnownNames : Enter("unregister", n) /\ UNCHANGED outside

CallRegister == \E d \in Catalogue : Register(d)

CallStartAll == Enter("start_all", "") /\ UNCHANGED outside

CallStopAll == Enter("stop_all", "") /\ UNCHANGED outside

CallTick == TickAllowed /\ Enter("process", "") /\ UNCHANGED outside

CallDeinit == Enter("deinit", "") /\ UNCHANGED outside

\* the call has returned to its caller
Finish ==
    /\ phase = "done"
    /\ phase' = "idle"
    /\ op' = [fn |-> "", name |-> ""]
    /\ pre' = <<>>
    /\ trace' = <<>>
    /\ ret' = 0
    /\ UNCHANGED <<initialized, services, clock, stack>>
    /\ UNCHANGED outside

\* time passes between two calls
AdvanceClock ==
    /\ Idle
    /\ clock < MaxTime
    /\ clock' = clock + 1
    /\ UNCHANGED <<initialized, services, stack, ret, phase, op, pre, trace>>
    /\ UNCHANGED outside

\* the code of a start, stop or restart in progress
LifecycleStep ==
    \/ StartEntry \/ StartDepsRet \/ StartCallCb
    \/ StartDepsLoop \/ StartDepsAfter
    \/ StopEntry \/ StopCallCb
    \/ RestartEntry \/ RestartAfterStop \/ RestartAfterStart

BulkStep == StartAllLoop \/ StartAllAfter \/ StopAllLoop \/ StopAllAfter

TickStep == ProcessEntry \/ ProcessVisit \/ ProcessAfterRestart

AdminStep ==
    \/ UnregisterEntry \/ UnregisterAfterStop
    \/ DeinitEntry \/ DeinitAfterStopAll

\* the code of the call in progress
Step == LifecycleStep \/ BulkStep \/ TickStep \/ AdminStep

T0 == 1

Init ==
    /\ initialized = FALSE
    /\ services = <<>>
    /\ clock = T0
    /\ stack = <<>>
    /\ ret = 0
    /\ phase = "idle"
    /\ op = [fn |-> "", name |-> ""]
    /\ pre = <<>>
    /\ trace = <<>>
    /\ script = 0
    /\ BusInit

Next ==
    \/ ManagerInit \/ CallDeinit \/ CallRegister \/ CallUnregister
    \/ CallStart \/ CallStop \/ CallRestart
    \/ CallStartAll \/ CallStopAll \/ CallTick
    \/ Step \/ Finish \/ AdvanceClock

Spec == Init /\ [][Next]_vars

-----------------------------------------------------------------------------
(* The dependency resolver on three services: the registry is one of a few *)
(* fixed dependency graphs, registered by bootstrap code before the calls  *)
(* start, and the clock stands still.                                      *)

\* A -> B -> C
ChainRegistry ==
    << Descriptor("A", <<"B">>, TRUE, 1, 2, FALSE),
       Descriptor("B", <<"C">>, TRUE, 1, 2, FALSE),
       Descriptor("C", <<>>, FALSE, 0, 0, FALSE) >>

\* A -> B, A -> C
FanRegistry ==
    << Descriptor("A", <<"B", "C">>, TRUE, 1, 2, FALSE),
       Descriptor("B", <<>>, FALSE, 0, 0, FALSE),
       Descriptor("C", <<>>, TRUE, 1, 2, FALSE) >>

\* A -> B, A -> C with C never registered
MissingRegistry ==
    << Descriptor("A", <<"B", "C">>, TRUE, 1, 2, FALSE),
       Descriptor("B", <<>>, FALSE, 0, 0, FALSE) >>

\* A -> C, A -> B with C never registered
MissingFirstRegistry ==
    << Descriptor("B", <<>>, FALSE, 0, 0, FALSE),
       Descriptor("A", <<"C", "B">>, TRUE, 1, 2, FALSE) >>

DepRegistries ==
    {ChainRegistry, FanRegistry, MissingRegistry, MissingFirstRegistry}

InitDeps ==
    /\ initialized = TRUE
    /\ services \in DepRegistries
    /\ clock = T0
    /\ stack = <<>>
    /\ ret = 0
    /\ phase = "idle"
    /\ op = [fn |-> "", name |-> ""]
    /\ pre = <<>>
    /\ trace = <<>>
    /\ script = 0
    /\ BusInit

NextDeps ==
    \/ CallStart \/ CallStop \/ CallRestart
    \/ CallStartAll \/ CallStopAll \/ CallTick
    \/ LifecycleStep \/ BulkStep \/ TickStep \/ Finish

SpecDeps == InitDeps /\ [][NextDeps]_vars

-----------------------------------------------------------------------------
(* The same registries with start, start_all and tick run to completion:   *)
(* the code in progress keeps running and every callback returns.          *)

\* the code of a start, start_all or tick in progress
RunStep ==
    \/ StartEntry \/ StartDepsRet \/ StartCallCb
    \/ StartDepsLoop \/ StartDepsAfter
    \/ StartAllLoop \/ StartAllAfter
    \/ TickStep

NextRun == CallStart \/ CallStartAll \/ CallTick \/ RunStep \/ Finish

SpecRun == InitDeps /\ [][NextRun]_vars /\ WF_vars(RunStep)

-----------------------------------------------------------------------------
(* The scenario of one service "net" whose start callback always fails:    *)
(* start("net") at time t0, then one tick at t0 and one tick after each    *)
(* further restart delay.                                                  *)

NetRegistry == << Descriptor("net", <<>>, TRUE, 1000, 3, TRUE) >>

\* the times t0 at which the scenario is run
ScenarioStarts == {1000, 5000, 60000, 86400000}

\* number of ticks of the scenario: t0, t0 + 1000, ..., t0 + 4000
ScenarioTicks == 5

InitNet ==
    /\ initialized = TRUE
    /\ services = NetRegistry
    /\ clock \in ScenarioStarts
    /\ stack = <<>>
    /\ ret = 0
    /\ phase = "idle"
    /\ op = [fn |-> "", name |-> ""]
    /\ pre = <<>>
    /\ trace = <<>>
    /\ script = 0
    /\ BusInit

\* script = 0: start("net"); script = 2j - 1: the j-th tick is due;
\* script = 2j: the j-th tick has been called
ScriptStart ==
    /\ script = 0
    /\ Enter("start", "net")
    /\ script' = 1
    /\ UNCHANGED bvars

ScriptTick ==
    /\ script % 2 = 1
    /\ script < 2 * ScenarioTicks
    /\ Enter("process", "")
    /\ script' = script + 1
    /\ UNCHANGED bvars

ScriptWait ==
    /\ script > 0
    /\ script % 2 = 0
    /\ script < 2 * ScenarioTicks
    /\ Idle
    /\ clock' = clock + services[1].restart_delay_ms
    /\ script' = script + 1
    /\ UNCHANGED <<initialized, services, stack, ret, phase, op, pre, trace>>
    /\ UNCHANGED bvars

NextNet ==
    \/ ScriptStart \/ ScriptTick \/ ScriptWait
    \/ StartEntry \/ StartCallCb \/ ProcessEntry \/ ProcessVisit
    \/ ProcessAfterRestart \/ Finish

SpecNet == InitNet /\ [][NextNet]_vars

-----------------------------------------------------------------------------
(* The event system on its own: the service manager is never initialized.  *)

\* The bus as bootstrap code leaves it: initialized, with a subscriber to
\* CONFIG_CHANGED in slot 1 and a subscriber to all events in slot 2, both
\* with handlers that publish nothing.
BootedBus ==
    [EventsZero EXCEPT
        !.initialized = TRUE,
        !.next_subscription_id = 3,
        !.subscriptions[1] = [id |-> 1, type |-> "CONFIG_CHANGED",
                              handler |-> "quiet", active |-> TRUE],
        !.subscriptions[2] = [id |-> 2, type |-> VGIK_EVENT_CUSTOM,
                              handler |-> "quiet", active |-> TRUE]]

InitBus ==
    /\ initialized = FALSE
    /\ services = <<>>
    /\ clock = T0
    /\ stack = <<>>
    /\ ret = 0
    /\ phase = "idle"
    /\ op = [fn |-> "", name |-> ""]
    /\ pre = <<>>
    /\ trace = <<>>
    /\ script = 0
    /\ g_events = BootedBus
    /\ heap = << >>
    /\ bphase = "idle"
    /\ bop = ""
    /\ bret = 0
    /\ processed = 0
    /\ drained = <<>>
    /\ delivered = <<>>
    /\ published = 0
    /\ threads = NoThreads

NextBus ==
    \/ CallPublish \/ ProcessBegin \/ ProcessTurn \/ Clear \/ BusFinish

SpecBus == InitBus /\ [][NextBus]_vars

-----------------------------------------------------------------------------
(* The type filter: a subscriber to one type of the catalogue in slot 1, a  *)
(* subscriber to all events in slot 2, and events of every type.            *)

FilterBus(t) ==
    [EventsZero EXCEPT
        !.initialized = TRUE,
        !.next_subscription_id = 3,
        !.subscriptions[1] = [id |-> 1, type |-> t,
                              handler |-> "quiet", active |-> TRUE],
        !.subscriptions[2] = [id |-> 2, type |-> VGIK_EVENT_CUSTOM,
                              handler |-> "quiet", active |-> TRUE]]

InitFilter ==
    /\ initialized = FALSE
    /\ services = <<>>
    /\ clock = T0
    /\ stack = <<>>
    /\ ret = 0
    /\ phase = "idle"
    /\ op = [fn |-> "", name |-> ""]
    /\ pre = <<>>
    /\ trace = <<>>
    /\ script = 0
    /\ \E t \in EventTypes : g_events = FilterBus(t)
    /\ heap = << >>
    /\ bphase = "idle"
    /\ bop = ""
    /\ bret = 0
    /\ processed = 0
    /\ drained = <<>>
    /\ delivered = <<>>
    /\ published = 0
    /\ threads = NoThreads

\* the priority this caller gives to an event: crashes are critical
PriorityOf(t) ==
    IF t = "SERVICE_CRASHED" THEN VGIK_EVENT_PRIORITY_CRITICAL
    ELSE VGIK_EVENT_PRIORITY_NORMAL

\* vgik_event_publish_simple(t, PriorityOf(t), NULL, 0, source)
CallPublishTyped ==
    \E t \in EventTypes :
        /\ published < FilterEvents
        /\ Publish(Event(t, PriorityOf(t), FALSE, 0), "ok")

NextFilter == CallPublishTyped \/ ProcessBegin \/ ProcessTurn \/ BusFinish

SpecFilter == InitFilter /\ [][NextFilter]_vars

-----------------------------------------------------------------------------
(* Subscriptions that come and go: the bus after vgik_events_init, with      *)
(* subscribe, unsubscribe, publish, process and clear called in any order.   *)

InitSubs ==
    /\ initialized = FALSE
    /\ services = <<>>
    /\ clock = T0
    /\ stack = <<>>
    /\ ret = 0
    /\ phase = "idle"
    /\ op = [fn |-> "", name |-> ""]
    /\ pre = <<>>
    /\ trace = <<>>
    /\ script = 0
    /\ g_events = [EventsZero EXCEPT !.initialized = TRUE]
    /\ heap = << >>
    /\ bphase = "idle"
    /\ bop = ""
    /\ bret = 0
    /\ processed = 0
    /\ drained = <<>>
    /\ delivered = <<>>
    /\ published = 0
    /\ threads = NoThreads

\* vgik_event_publish_simple(t, PriorityOf(t), NULL, 0, source)
CallPublishPlain ==
    \E t \in PublishedTypes :
        /\ published < FilterEvents
        /\ Publish(Event(t, PriorityOf(t), FALSE, 0), "ok")

NextSubs ==
    \/ CallSubscribe \/ CallUnsubscribe \/ CallPublishPlain
    \/ ProcessBegin \/ ProcessTurn \/ Clear \/ BusFinish

SpecSubs == InitSubs /\ [][NextSubs]_vars

-----------------------------------------------------------------------------
(* The subscription table over the life of the event system: from the       *)
(* static initializer, with init, deinit, subscribe (null handlers too) and  *)
(* unsubscribe called in any order.                                          *)

InitIds ==
    /\ initialized = FALSE
    /\ services = <<>>
    /\ clock = T0
    /\ stack = <<>>
    /\ ret = 0
    /\ phase = "idle"
    /\ op = [fn |-> "", name |-> ""]
    /\ pre = <<>>
    /\ trace = <<>>
    /\ script = 0
    /\ BusInit

CallSubscribeAny ==
    \E t \in {"CONFIG_CHANGED", VGIK_EVENT_CUSTOM}, hd \in {"quiet", "NULL"} :
        Subscribe(t, hd)

NextIds ==
    \/ EventsInit \/ EventsDeinit \/ CallSubscribeAny \/ CallUnsubscribe
    \/ BusFinish

SpecIds == InitIds /\ [][NextIds]_vars

-----------------------------------------------------------------------------
(* The queries next to start, stop and restart: B without a health          *)
(* callback, A with one and depending on B, and a name nobody registered.   *)

QueryRegistry ==
    << [Descriptor("B", <<>>, FALSE, 0, 0, FALSE) EXCEPT !.health_cb = FALSE],
       Descriptor("A", <<"B">>, FALSE, 0, 0, FALSE) >>

QueryNames == {"A", "B", "C"}

InitQuery ==
    /\ initialized = TRUE
    /\ services = QueryRegistry
    /\ clock = T0
    /\ stack = <<>>
    /\ ret = 0
    /\ phase = "idle"
    /\ op = [fn |-> "", name |-> ""]
    /\ pre = <<>>
    /\ trace = <<>>
    /\ script = 0
    /\ BusInit

CallGetState ==
    \E n \in QueryNames : Query("get_state", n, GetState(services, n), <<>>)

\* the health callback answers true or false
CallIsHealthy ==
    \E n \in QueryNames, h \in {0, 1} :
        Query("is_healthy", n, IsHealthy(services, n, h),
              IF AsksHealth(services, n)
              THEN <<Invoked("health", n, h)>> ELSE <<>>)

NextQuery ==
    \/ CallStart \/ CallStop \/ CallRestart \/ LifecycleStep
    \/ CallGetState \/ CallIsHealthy \/ Finish

SpecQuery == InitQuery /\ [][NextQuery]_vars

-----------------------------------------------------------------------------
(* Restart backoff from the first millisecond: one service without          *)
(* dependencies and with auto_restart, a wall clock that reads 0 at first,  *)
(* and a caller that starts the service and ticks as time passes.           *)

BackoffRegistries ==
    { << Descriptor("B", <<>>, TRUE, delay, max, failing) >> :
        delay \in 1..MaxTime, max \in {0, CountCap}, failing \in BOOLEAN }

InitBackoff ==
    /\ initialized = TRUE
    /\ services \in BackoffRegistries
    /\ clock = 0
    /\ stack = <<>>
    /\ ret = 0
    /\ phase = "idle"
    /\ op = [fn |-> "", name |-> ""]
    /\ pre = <<>>
    /\ trace = <<>>
    /\ script = 0
    /\ BusInit

NextBackoff ==
    \/ CallStart \/ StartEntry \/ StartCallCb
    \/ CallTick \/ TickStep
    \/ AdvanceClock \/ Finish

SpecBackoff == InitBackoff /\ [][NextBackoff]_vars

-----------------------------------------------------------------------------
(* The periodic loop: one service without dependencies and with            *)
(* auto_restart is started once, then the loop ticks every millisecond.    *)
(* The loop is followed for as many ticks as the restart attempts of the   *)
(* model take at the longest delay.                                        *)

LoopRegistries ==
    { << Descriptor("B", <<>>, TRUE, delay, max, failing) >> :
        delay \in 1..MaxTime, max \in {0, CountCap}, failing \in BOOLEAN }

LoopTicks == 1 + CountCap * MaxTime

InitLoop ==
    /\ initialized = TRUE
    /\ services \in LoopRegistries
    /\ clock \in {0, T0}
    /\ stack = <<>>
    /\ ret = 0
    /\ phase = "idle"
    /\ op = [fn |-> "", name |-> ""]
    /\ pre = <<>>
    /\ trace = <<>>
    /\ script = 0
    /\ BusInit

\* script = 0: start("B"); script = 2j - 1: the j-th tick is due;
\* script = 2j: the j-th tick has been called
LoopStart ==
    /\ script = 0
    /\ Enter("start", "B")
    /\ script' = 1
    /\ UNCHANGED bvars

LoopTick ==
    /\ script % 2 = 1
    /\ script < 2 * LoopTicks
    /\ Enter("process", "")
    /\ script' = script + 1
    /\ UNCHANGED bvars

LoopWait ==
    /\ script > 0
    /\ script % 2 = 0
    /\ script < 2 * LoopTicks
    /\ Idle
    /\ clock' = clock + 1
    /\ script' = script + 1
    /\ UNCHANGED <<initialized, services, stack, ret, phase, op, pre, trace>>
    /\ UNCHANGED bvars

NextLoop ==
    \/ LoopStart \/ LoopTick \/ LoopWait
    \/ StartEntry \/ StartCallCb \/ TickStep \/ Finish

\* the loop keeps running and every callback returns
SpecLoop == InitLoop /\ [][NextLoop]_vars /\ WF_vars(NextLoop)

-----------------------------------------------------------------------------
(* Handlers that publish: the subscriber in slot 1 publishes one event for  *)
(* each event it is handed, the subscriber to all events in slot 2 does     *)
(* not.                                                                      *)

EchoBus(t, hd) ==
    [EventsZero EXCEPT
        !.initialized = TRUE,
        !.next_subscription_id = 3,
        !.subscriptions[1] = [id |-> 1, type |-> t,
                              handler |-> hd, active |-> TRUE],
        !.subscriptions[2] = [id |-> 2, type |-> VGIK_EVENT_CUSTOM,
                              handler |-> "quiet", active |-> TRUE]]

InitEcho ==
    /\ initialized = FALSE
    /\ services = <<>>
    /\ clock = T0
    /\ stack = <<>>
    /\ ret = 0
    /\ phase = "idle"
    /\ op = [fn |-> "", name |-> ""]
    /\ pre = <<>>
    /\ trace = <<>>
    /\ script = 0
    /\ \E t \in {"SERVICE_CRASHED", VGIK_EVENT_CUSTOM}, hd \in Publishing :
          g_events = EchoBus(t, hd)
    /\ heap = << >>
    /\ bphase = "idle"
    /\ bop = ""
    /\ bret = 0
    /\ processed = 0
    /\ drained = <<>>
    /\ delivered = <<>>
    /\ published = 0
    /\ threads = NoThreads

NextEcho ==
    \/ CallPublishPlain \/ ProcessBegin \/ ProcessTurn \/ Clear \/ BusFinish

SpecEcho == InitEcho /\ [][NextEcho]_vars

-----------------------------------------------------------------------------
(* The supervisor next to the bus: two registered services, the bus booted   *)
(* with a subscriber to all events, and one control thread that calls the    *)
(* service manager and drains the bus in turn.                               *)

LifecycleRegistry ==
    << Descriptor("B", <<>>, TRUE, 0, 2, FALSE),
       Descriptor("A", <<"B">>, TRUE, 1, 0, FALSE) >>

InitLifecycle ==
    /\ initialized = TRUE
    /\ services = LifecycleRegistry
    /\ clock = T0
    /\ stack = <<>>
    /\ ret = 0
    /\ phase = "idle"
    /\ op = [fn |-> "", name |-> ""]
    /\ pre = <<>>
    /\ trace = <<>>
    /\ script = 0
    /\ g_events = BootedBus
    /\ heap = << >>
    /\ bphase = "idle"
    /\ bop = ""
    /\ bret = 0
    /\ processed = 0
    /\ drained = <<>>
    /\ delivered = <<>>
    /\ published = 0
    /\ threads = NoThreads

\* the control thread calls the service manager while no drain is running
SupervisorCall ==
    BusIdle /\ (CallStart \/ CallStop \/ CallRestart \/ CallTick)

\* the control thread drains the bus while no service call is running
DrainCall == Idle /\ ProcessBegin

NextLifecycle ==
    \/ SupervisorCall \/ LifecycleStep \/ TickStep \/ Finish
    \/ DrainCall \/ ProcessTurn \/ BusFinish

SpecLifecycle == InitLifecycle /\ [][NextLifecycle]_vars

-----------------------------------------------------------------------------
(* start, stop and restart entered in any state of the service, the         *)
(* transient ones included: a callback of a service or of one of its        *)
(* dependents may call back into the manager while the service is STARTING, *)
(* STOPPING or RESTARTING.                                                  *)

\* the states and start times a service can have when a call is entered:
\* STOPPED comes with start_time 0 and RUNNING with the time of the start
EntryRecords(d) ==
    { r \in { [d EXCEPT !.state = st, !.start_time = t] :
                st \in ServiceStates, t \in {0, T0} } :
        /\ r.state = STOPPED => r.start_time = 0
        /\ r.state = RUNNING => r.start_time = T0 }

InitEntry ==
    /\ initialized = TRUE
    /\ \E b \in EntryRecords(LifecycleRegistry[1]),
          a \in EntryRecords(LifecycleRegistry[2]) : services = <<b, a>>
    /\ clock = T0
    /\ stack = <<>>
    /\ ret = 0
    /\ phase = "idle"
    /\ op = [fn |-> "", name |-> ""]
    /\ pre = <<>>
    /\ trace = <<>>
    /\ script = 0
    /\ BusInit

NextEntry ==
    CallStart \/ CallStop \/ CallRestart \/ LifecycleStep \/ Finish

SpecEntry == InitEntry /\ [][NextEntry]_vars

-----------------------------------------------------------------------------
(* The table of services at its limit: bootstrap code has registered the    *)
(* services "1" .. "n", and the callers register, unregister, start and     *)
(* stop a few names, tick, and tear the manager down and set it up again.   *)

TableDescriptor(n) ==
    [Descriptor(n, <<>>, TRUE, 0, 1, FALSE) EXCEPT !.health_cb = FALSE]

\* services "1" .. "n" as register stores them
Filled(n) == [k \in 1..n |-> TableDescriptor(ToString(k))]

\* the table is empty, one short of full, or full
TableSizes ==
    {0, VGIK_SERVICE_MAX_SERVICES - 1, VGIK_SERVICE_MAX_SERVICES}

\* names the callers use: the first of the table and one beyond its limit
TableNames == {"1", ToString(VGIK_SERVICE_MAX_SERVICES + 1)}

\* descriptors the callers pass to register: the fields the manager owns
\* hold whatever the caller left in them
CallerDescriptors ==
    { [TableDescriptor(n) EXCEPT !.state = st, !.restart_count = c,
                                 !.start_time = t, !.last_restart_time = t] :
        n \in TableNames, st \in {STOPPED, RUNNING}, c \in {0, 3},
        t \in {0, 7} }

InitTable ==
    /\ initialized = TRUE
    /\ \E n \in TableSizes : services = Filled(n)
    /\ clock = T0
    /\ stack = <<>>
    /\ ret = 0
    /\ phase = "idle"
    /\ op = [fn |-> "", name |-> ""]
    /\ pre = <<>>
    /\ trace = <<>>
    /\ script = 0
    /\ BusInit

CallRegisterAny == \E d \in CallerDescriptors : Register(d)

CallNamed ==
    \E n \in TableNames, fn \in {"start", "stop", "unregister"} :
        Enter(fn, n) /\ UNCHANGED outside

NextTable ==
    \/ ManagerInit \/ CallDeinit \/ DeinitEntry \/ DeinitAfterStopAll
    \/ StopAllLoop \/ StopAllAfter
    \/ CallRegisterAny \/ CallNamed
    \/ UnregisterEntry \/ UnregisterAfterStop
    \/ StartEntry \/ StartCallCb \/ StopEntry \/ StopCallCb
    \/ CallTick \/ TickStep \/ Finish

SpecTable == InitTable /\ [][NextTable]_vars

-----------------------------------------------------------------------------
(* Dependency graphs with a cycle.  The recursion of vgik_service_start and *)
(* start_dependencies is followed to the depth MaxDepth.                    *)

\* A -> B -> A
TwoCycleRegistry ==
    << Descriptor("A", <<"B">>, FALSE, 0, 0, FALSE),
       Descriptor("B", <<"A">>, FALSE, 0, 0, FALSE) >>

\* A -> A, next to D -> C
SelfCycleRegistry ==
    << Descriptor("A", <<"A">>, FALSE, 0, 0, FALSE),
       Descriptor("D", <<"C">>, FALSE, 0, 0, FALSE),
       Descriptor("C", <<>>, FALSE, 0, 0, FALSE) >>

\* A -> C, A -> B -> A: the dependency C comes before the cycle
LateCycleRegistry ==
    << Descriptor("A", <<"C", "B">>, FALSE, 0, 0, FALSE),
       Descriptor("B", <<"A">>, FALSE, 0, 0, FALSE),
       Descriptor("C", <<>>, FALSE, 0, 0, FALSE) >>

CycleRegistries == {TwoCycleRegistry, SelfCycleRegistry, LateCycleRegistry}

InitCycle ==
    /\ initialized = TRUE
    /\ services \in CycleRegistries
    /\ clock = T0
    /\ stack = <<>>
    /\ ret = 0
    /\ phase = "idle"
    /\ op = [fn |-> "", name |-> ""]
    /\ pre = <<>>
    /\ trace = <<>>
    /\ script = 0
    /\ BusInit

\* the code of a start or stop in progress, while the stack has room
CycleStep ==
    /\ Len(stack) < MaxDepth
    /\ \/ StartEntry \/ StartDepsRet \/ StartCallCb
       \/ StartDepsLoop \/ StartDepsAfter
       \/ StopEntry \/ StopCallCb

NextCycle == CallStart \/ CallStop \/ CycleStep \/ Finish

SpecCycle == InitCycle /\ [][NextCycle]_vars

-----------------------------------------------------------------------------
(* Properties *)

Registered(svcs) == { svcs[k].name : k \in 1..Len(svcs) }

\* the entry of a registered name
Svc(svcs, n) == svcs[FindService(svcs, n)]

\* the top-level call fn has run to completion
Done(fn) == phase = "done" /\ op.fn = fn

StartCalls(n) ==
    { t \in 1..Len(trace) : trace[t].cb = "start" /\ trace[t].name = n }

Min(a, b) == IF a <= b THEN a ELSE b

WithinLimit ==
    \A k \in 1..Len(services) :
        services[k].max_restart_attempts > 0 =>
            services[k].restart_count <= services[k].max_restart_attempts

CountNeverDecreases ==
    \A n \in Registered(services) \cap Registered(services') :
        Svc(services', n).restart_count >= Svc(services, n).restart_count

\* C1: in every reachable state a registered service with a nonzero
\* max_restart_attempts has restart_count <= max_restart_attempts, and from
\* one state to the next the restart_count of a service that stays
\* registered does not decrease.
C1_RestartCountBounded == []WithinLimit /\ [][CountNeverDecreases]_vars

\* a tick has used up the last attempt of a limited service
C1_Witness ==
    /\ Done("process")
    /\ \E k \in 1..Len(services) :
          /\ services[k].max_restart_attempts > 0
          /\ services[k].restart_count = services[k].max_restart_attempts
          /\ pre[k].restart_count < services[k].restart_count

\* C2: once restart_count has reached a nonzero max_restart_attempts, a tick
\* does not invoke the start callback of that (FAILED) service and leaves it
\* FAILED, whatever else is registered.
C2_ExhaustedNeverStartedByTick ==
    op.fn = "process" =>
        \A k \in 1..Len(pre) :
            ( /\ pre[k].max_restart_attempts > 0
              /\ pre[k].restart_count = pre[k].max_restart_attempts
              /\ pre[k].state = FAILED )
            => /\ services[k].state = FAILED
               /\ StartCalls(pre[k].name) = {}

\* the number of the tick that is running or has just run in the scenario
TickNo == script \div 2

\* C3 (as stated): in the scenario the tick at t0 makes no attempt, the ticks
\* at t0 + 1000, t0 + 2000 and t0 + 3000 make the attempts 1, 2 and 3, and
\* the tick at t0 + 4000 makes none: after the j-th tick restart_count is
\* min(j - 1, 3).
C3_ScenarioAsStated ==
    Done("process") => services[1].restart_count = Min(TickNo - 1, 3)

\* C3 (amended): start("net") fails and leaves it FAILED with restart_count
\* 0; the tick at t0 already makes the first attempt because no attempt is
\* recorded yet, the ticks at t0 + 1000 and t0 + 2000 make the second and
\* third, every attempt fails and leaves it FAILED, and the ticks at
\* t0 + 3000 and t0 + 4000 make no attempt: after the j-th tick
\* restart_count is min(j, 3) and the last attempt was at the min(j, 3)-th
\* tick time.
C3_Scenario ==
    /\ Done("start") =>
          /\ ret # 0
          /\ services[1].state = FAILED
          /\ services[1].restart_count = 0
          /\ trace = <<Invoked("start", "net", -1)>>
    /\ Done("process") =>
          /\ services[1].state = FAILED
          /\ services[1].restart_count = Min(TickNo, 3)
          /\ services[1].last_restart_time =
                clock - (TickNo - Min(TickNo, 3)) * services[1].restart_delay_ms
          /\ trace = IF TickNo <= 3 THEN <<Invoked("start", "net", -1)>>
                                    ELSE <<>>

\* the last tick of the scenario has run and found the attempts used up
C3_Witness ==
    /\ Done("process")
    /\ TickNo = ScenarioTicks
    /\ services[1].restart_count = 3
    /\ trace = <<>>

\* C4: when the tick reaches a FAILED service with auto_restart and attempts
\* remaining, it makes a restart attempt if and only if no attempt is recorded
\* (last_restart_time = 0) or now - last_restart_time >= restart_delay_ms;
\* the attempt adds exactly 1 to restart_count, sets last_restart_time to
\* now, marks the service RESTARTING and calls start(name); otherwise the
\* tick leaves the service (and the whole registry) as it is.
C4_VisitStep ==
    ( /\ At("process", "loop")
      /\ Top.i <= Len(services)
      /\ services[Top.i].state = FAILED
      /\ services[Top.i].auto_restart
      /\ \/ services[Top.i].max_restart_attempts = 0
         \/ services[Top.i].restart_count <
                services[Top.i].max_restart_attempts )
    => LET i == Top.i
           svc == services[i]
           due == \/ svc.last_restart_time = 0
                  \/ clock - svc.last_restart_time >= svc.restart_delay_ms
       IN  IF due
           THEN /\ services' = [services EXCEPT
                       ![i].restart_count = svc.restart_count + 1,
                       ![i].last_restart_time = clock,
                       ![i].state = RESTARTING]
                /\ Len(stack') = Len(stack) + 1
                /\ stack'[Len(stack')] = Frame("start", svc.name)
           ELSE /\ services' = services
                /\ Len(stack') = Len(stack)
                /\ trace' = trace

IsChain(svcs) ==
    /\ Registered(svcs) = {"A", "B", "C"}
    /\ Svc(svcs, "A").dependencies = <<"B">>
    /\ Svc(svcs, "B").dependencies = <<"C">>
    /\ Svc(svcs, "C").dependencies = <<>>

ChainStopped ==
    /\ Done("start")
    /\ op.name = "A"
    /\ IsChain(pre)
    /\ \A n \in {"A", "B", "C"} : Svc(pre, n).state = STOPPED

\* C5: with A depending on B, B depending on C and all three STOPPED,
\* start(A) invokes the start callbacks in the order C, B, A, each at most
\* once and none after the first one that fails, and the three services
\* all end RUNNING (start returning success) if and only if all three
\* callbacks were invoked and succeeded.
C5_ChainOrder ==
    ChainStopped =>
        LET order == <<"C", "B", "A">>
            L == Len(trace)
            allOk == L = 3 /\ \A t \in 1..L : trace[t].res = 0
        IN  /\ L \in 1..3
            /\ \A t \in 1..L :
                  /\ trace[t].cb = "start"
                  /\ trace[t].name = order[t]
                  /\ t < L => trace[t].res = 0
            /\ L < 3 => trace[L].res # 0
            /\ (\A n \in {"A", "B", "C"} :
                    Svc(services, n).state = RUNNING) <=> allOk
            /\ ret = 0 <=> allOk

\* start(A) has brought the whole chain up
C5_Witness ==
    /\ ChainStopped
    /\ \A n \in {"A", "B", "C"} : Svc(services, n).state = RUNNING
    /\ Len(trace) = 3

\* a top-level start of a registered, STOPPED service without dependencies
\* that has a start callback
PlainStart ==
    /\ op.fn = "start"
    /\ op.name \in Registered(pre)
    /\ Svc(pre, op.name).state = STOPPED
    /\ Svc(pre, op.name).dependencies = <<>>
    /\ Svc(pre, op.name).start_cb

\* C6: start(name) of a STOPPED service without dependencies has set the
\* state to STARTING when it invokes the start callback, and it ends RUNNING
\* with result 0 if the callback returned 0 and FAILED with a nonzero result
\* otherwise.
C6_PlainStart ==
    PlainStart =>
        /\ At("start", "call_cb") =>
              /\ services[Top.idx].name = op.name
              /\ services[Top.idx].state = STARTING
              /\ trace = <<>>
        /\ phase = "done" =>
              /\ Len(trace) = 1
              /\ trace[1].cb = "start" /\ trace[1].name = op.name
              /\ IF trace[1].res = 0
                 THEN /\ Svc(services, op.name).state = RUNNING
                      /\ Svc(services, op.name).start_time = clock
                      /\ ret = 0
                 ELSE /\ Svc(services, op.name).state = FAILED
                      /\ ret # 0

\* such a start has failed
C6_Witness ==
    /\ PlainStart
    /\ phase = "done"
    /\ Svc(services, op.name).state = FAILED
    /\ ret # 0

\* names reachable from the names of S along dependency lists, in at most k
\* steps
RECURSIVE ReachFrom(_, _, _)
ReachFrom(svcs, S, k) ==
    IF k = 0 THEN S
    ELSE ReachFrom(svcs,
                   S \cup UNION { { svcs[m].dependencies[j] :
                                     j \in 1..Len(svcs[m].dependencies) } :
                                 m \in { x \in 1..Len(svcs) :
                                          svcs[x].name \in S } },
                   k - 1)

\* start_dependencies has just got a failure from the start of dependency
\* number Top.i
DepFailed == At("start_deps", "after") /\ ret # 0

\* at the moment the failure is seen: the dependencies listed before the
\* failing one are RUNNING, and (for a top-level start) those listed after it
\* that no earlier one depends on are as they were, their callback not called
C7_AtFailure ==
    DepFailed =>
        LET deps == services[Top.idx].dependencies
            f == Top.i
        IN  /\ \A j \in 1..(f - 1) :
                  /\ deps[j] \in Registered(services)
                  /\ Svc(services, deps[j]).state = RUNNING
            /\ (Len(stack) = 2 /\ op.fn = "start") =>
                  \A j \in (f + 1)..Len(deps) :
                     ( /\ deps[j] \in Registered(services)
                       /\ deps[j] \notin
                             ReachFrom(pre, { deps[m] : m \in 1..f },
                                       Len(pre)) )
                     => /\ Svc(services, deps[j]) = Svc(pre, deps[j])
                        /\ StartCalls(deps[j]) = {}

\* the two steps that follow: start_dependencies returns the failure at once
\* and start marks its own service FAILED and returns a failure, no callback
\* being invoked and no other service touched
C7_Abort ==
    /\ DepFailed =>
          /\ stack' = Pop
          /\ ret' # 0
          /\ services' = services
          /\ trace' = trace
    /\ (At("start", "deps_ret") /\ ret # 0) =>
          /\ stack' = Pop
          /\ ret' # 0
          /\ services' = [services EXCEPT ![Top.idx].state = FAILED]
          /\ trace' = trace

\* C7: when the start of a dependency fails (its callback fails, a deeper
\* dependency fails, or the name is not registered) start stops at that
\* dependency: later dependencies are not started and keep their state,
\* earlier ones stay RUNNING, the service's own callback is not invoked,
\* its state becomes FAILED and start returns a failure.
C7_DependencyFailure == []C7_AtFailure /\ [][C7_Abort]_vars

\* the second of two dependencies failed after the first one was started
C7_Witness ==
    /\ DepFailed
    /\ Len(stack) = 2 /\ op.fn = "start"
    /\ Top.i = 2
    /\ Svc(pre, services[Top.idx].dependencies[1]).state = STOPPED
    /\ Svc(services, services[Top.idx].dependencies[1]).state = RUNNING

\* every dependency listed by svcs[k] is registered and RUNNING
AllDepsRunning(svcs, k) ==
    \A j \in 1..Len(svcs[k].dependencies) :
        \E m \in 1..Len(svcs) :
            /\ svcs[m].name = svcs[k].dependencies[j]
            /\ svcs[m].state = RUNNING

BecomesRunningAfterDeps ==
    \A n \in Registered(services) \cap Registered(services') :
        ( /\ Svc(services, n).state # RUNNING
          /\ Svc(services', n).state = RUNNING )
        => AllDepsRunning(services', FindService(services', n))

\* C8: at the moment a start callback is invoked, and at the moment a service
\* becomes RUNNING, every dependency the service lists is registered and
\* RUNNING.
C8_DependenciesFirst ==
    /\ [](At("start", "call_cb") => AllDepsRunning(services, Top.idx))
    /\ [][BecomesRunningAfterDeps]_vars

\* a tick is about to invoke the start callback of a service with dependencies
C8_Witness ==
    /\ At("start", "call_cb")
    /\ op.fn = "process"
    /\ services[Top.idx].dependencies # <<>>
    /\ services[Top.idx].state = STARTING

ClaimedTransitions ==
    { <<STOPPED, STARTING>>, <<STARTING, RUNNING>>, <<STARTING, FAILED>>,
      <<RUNNING, STOPPING>>, <<STOPPING, STOPPED>>, <<STOPPING, FAILED>>,
      <<FAILED, RESTARTING>>, <<RESTARTING, STARTING>> }

\* what the code adds: start of a FAILED service goes to STARTING without
\* the RESTARTING marker, a failed dependency takes a STOPPED or RESTARTING
\* service to FAILED, and stop of a FAILED service goes to STOPPING
CodeTransitions ==
    ClaimedTransitions \cup
    { <<FAILED, STARTING>>, <<STOPPED, FAILED>>, <<RESTARTING, FAILED>>,
      <<FAILED, STOPPING>> }

ChangesWithin(T) ==
    \A n \in Registered(services) \cap Registered(services') :
        Svc(services, n).state # Svc(services', n).state =>
            <<Svc(services, n).state, Svc(services', n).state>> \in T

RegisteredStopped ==
    \A n \in Registered(services') \ Registered(services) :
        Svc(services', n).state = STOPPED

\* C9 (as stated): every change of a service's state is one of
\* STOPPED->STARTING, STARTING->RUNNING, STARTING->FAILED, RUNNING->STOPPING,
\* STOPPING->STOPPED, STOPPING->FAILED, FAILED->RESTARTING,
\* RESTARTING->STARTING, and a newly registered service is STOPPED.
C9_TransitionsAsStated ==
    [][ChangesWithin(ClaimedTransitions) /\ RegisteredStopped]_vars

\* C9 (amended): every change of a service's state is one of the transitions
\* above or one of FAILED->STARTING (start or the start step of restart on a
\* FAILED service), STOPPED->FAILED and RESTARTING->FAILED (a dependency
\* failed to start), FAILED->STOPPING (stop on a FAILED service); a newly
\* registered service is STOPPED.
C9_Transitions ==
    [][ChangesWithin(CodeTransitions) /\ RegisteredStopped]_vars

\* start(name) has taken a FAILED service to STARTING
C9_Witness ==
    /\ At("start", "call_cb")
    /\ Len(stack) = 1
    /\ pre[Top.idx].state = FAILED
    /\ services[Top.idx].state = STARTING

\* the handler invocations of the subscription in slot k, as event tags
RECURSIVE SeenBy(_, _)
SeenBy(log, k) ==
    IF log = <<>> THEN <<>>
    ELSE IF Head(log).slot = k
    THEN <<Head(log).source>> \o SeenBy(Tail(log), k)
    ELSE SeenBy(Tail(log), k)

\* C10: the events one process() dequeues come in non-increasing priority,
\* events of equal priority in the order in which they were published, and
\* a subscriber to all events is handed them in exactly that order.
C10_StablePriorityOrder ==
    bop = "process" =>
        /\ \A i, j \in 1..Len(drained) :
              i < j =>
                /\ drained[i].priority >= drained[j].priority
                /\ drained[i].priority = drained[j].priority =>
                      drained[i].source < drained[j].source
        /\ SeenBy(delivered, 2) =
              [i \in 1..Len(drained) |-> drained[i].source]

\* HIGH, LOW, HIGH was published and dispatched as HIGH, HIGH, LOW
C10_Witness ==
    /\ bop = "process"
    /\ bphase = "done"
    /\ Len(drained) = 3
    /\ drained[1].priority = VGIK_EVENT_PRIORITY_HIGH /\ drained[1].source = 1
    /\ drained[2].priority = VGIK_EVENT_PRIORITY_HIGH /\ drained[2].source = 3
    /\ drained[3].priority = VGIK_EVENT_PRIORITY_LOW /\ drained[3].source = 2
    /\ SeenBy(delivered, 2) = <<1, 3, 2>>

\* the events in the queue from node n on, head first
RECURSIVE QueueFrom(_, _)
QueueFrom(h, n) ==
    IF n = NULL THEN <<>> ELSE <<h[n].event>> \o QueueFrom(h, h[n].next)

Queue == QueueFrom(heap, g_events.queue_head)

\* a step in which vgik_event_publish is called and returns
PublishStep == BusIdle /\ bop' = "publish"

\* a publish on a full queue is refused and changes nothing; any other
\* publish adds one event or, when an allocation fails, none
C11_PublishStep ==
    PublishStep /\ g_events.initialized =>
        IF g_events.queue_size >= QueueCap
        THEN /\ bret' = -1
             /\ g_events' = g_events
             /\ heap' = heap
             /\ Queue' = Queue
             /\ Len(Queue') = QueueCap
        ELSE \/ bret' = 0 /\ Len(Queue') = Len(Queue) + 1
             \/ bret' = -1 /\ Queue' = Queue

\* with the allocations succeeding, enqueue_event accepts an event of any
\* priority while the queue is not full
C11_RoomMeansSuccess ==
    g_events.initialized /\ g_events.queue_size < QueueCap =>
        \A p \in Priorities :
            LET r == Enqueue(g_events, heap,
                             Event("CONFIG_CHANGED", p, TRUE, 0), clock, "ok")
            IN  /\ r.ret = 0
                /\ r.g.queue_size = g_events.queue_size + 1
                /\ Len(QueueFrom(r.h, r.g.queue_head)) = Len(Queue) + 1

\* C11: a publish on a full queue fails and leaves the queue as it was
\* (size, events, order: nothing is evicted, whatever the new priority);
\* a publish on an initialized bus whose queue is not full succeeds when
\* the allocations succeed.
C11_QueueFull == []C11_RoomMeansSuccess /\ [][C11_PublishStep]_vars

\* a publish on a full queue of LOW events has just been refused
C11_Witness ==
    /\ bop = "publish" /\ bphase = "done" /\ bret = -1
    /\ g_events.queue_size = QueueCap
    /\ Len(Queue) = QueueCap
    /\ \A i \in 1..Len(Queue) : Queue[i].priority = VGIK_EVENT_PRIORITY_LOW

\* how often the current process() has handed the event with this tag to
\* the subscription in slot k
Deliveries(k, tag) ==
    Cardinality({ i \in 1..Len(delivered) :
                    delivered[i].slot = k /\ delivered[i].source = tag })

\* the subscription in slot k was invoked for exactly the dequeued events of
\* its own type
ExactlyOwnType(k) ==
    \A i \in 1..Len(drained) :
        Deliveries(k, drained[i].source) =
            IF drained[i].type = g_events.subscriptions[k].type THEN 1 ELSE 0

\* C12 as stated: a subscription to any type T of the catalogue, custom
\* included, is invoked for an event iff the event is of type T.
C12_TypeFilterAsStated ==
    bop = "process" => ExactlyOwnType(1)

\* C12: a subscription to a type T other than VGIK_EVENT_CUSTOM is invoked
\* during process() for an event iff the event is of type T, and then once.
C12_TypeFilter ==
    /\ bop = "process"
    /\ g_events.subscriptions[1].type # VGIK_EVENT_CUSTOM
    => ExactlyOwnType(1)

\* the subscriber to CONFIG_CHANGED, given CONFIG_CHANGED(NORMAL) and
\* SERVICE_CRASHED(CRITICAL), has received the CONFIG_CHANGED event only
C12_Witness ==
    /\ bop = "process" /\ bphase = "done"
    /\ g_events.subscriptions[1].type = "CONFIG_CHANGED"
    /\ Len(drained) = 2
    /\ drained[1].type = "SERVICE_CRASHED"
    /\ drained[1].priority = VGIK_EVENT_PRIORITY_CRITICAL
    /\ drained[2].type = "CONFIG_CHANGED"
    /\ drained[2].priority = VGIK_EVENT_PRIORITY_NORMAL
    /\ SeenBy(delivered, 1) = << drained[2].source >>

\* C13: a subscription with the filter VGIK_EVENT_CUSTOM is invoked for
\* every dispatched event, whatever its type (once per event).
C13_AllFilter ==
    bop = "process" =>
        \A k \in 1..SubSlots :
            /\ g_events.subscriptions[k].active
            /\ g_events.subscriptions[k].type = VGIK_EVENT_CUSTOM
            => \A i \in 1..Len(drained) :
                   Deliveries(k, drained[i].source) = 1

\* the subscriber to all events has received two events of different
\* types, neither of them VGIK_EVENT_CUSTOM
C13_Witness ==
    /\ bop = "process" /\ bphase = "done"
    /\ Len(drained) = 2
    /\ drained[1].type # drained[2].type
    /\ drained[1].type # VGIK_EVENT_CUSTOM
    /\ drained[2].type # VGIK_EVENT_CUSTOM
    /\ SeenBy(delivered, 2) = << drained[1].source, drained[2].source >>

\* the tags of a sequence of events
Tags(evs) == { evs[i].source : i \in 1..Len(evs) }

NoRepeats(evs) ==
    \A i, j \in 1..Len(evs) : evs[i].source = evs[j].source => i = j

\* every accepted event is in the queue or has been dequeued by the call in
\* progress, and is there once
EachEventOnce ==
    /\ NoRepeats(Queue) /\ NoRepeats(drained)
    /\ Tags(Queue) \cap Tags(drained) = {}
    /\ Tags(Queue) \cup Tags(drained) \subseteq 1..published
    /\ bop # "clear" => Tags(Queue) \cup Tags(drained) = 1..published
    /\ bphase = "done" /\ bop \in {"process", "clear"} => Queue = <<>>

\* a dequeued event went once to every subscription that is active and
\* matches, and to no other
DeliveredOnceToEach ==
    \A i \in 1..Len(drained), k \in 1..SubSlots :
        LET sub == g_events.subscriptions[k]
        IN  Deliveries(k, drained[i].source) =
                IF /\ sub.active
                   /\ sub.type \in {drained[i].type, VGIK_EVENT_CUSTOM}
                THEN 1 ELSE 0

\* C14: an accepted event is dequeued exactly once by process() or clear();
\* process() hands it once to each subscription that is active and matches
\* and it is gone afterwards; process() returns the number of events it
\* dequeued, matched or not.
C14_ExactlyOnce ==
    /\ EachEventOnce
    /\ bop = "process" =>
          /\ DeliveredOnceToEach
          /\ processed = Len(drained)
          /\ bphase = "done" => bret = Len(drained)

\* process() has returned 2: one event went to a subscriber, the other had
\* no subscriber, and a subscription that was cancelled got neither
C14_Witness ==
    /\ bop = "process" /\ bphase = "done" /\ bret = 2
    /\ Len(delivered) = 1
    /\ \E k \in 1..SubSlots :
          /\ ~g_events.subscriptions[k].active
          /\ g_events.subscriptions[k].type = VGIK_EVENT_CUSTOM

\* the lifecycle event that reports a service's arrival in a state
LifecycleEvent(st) ==
    CASE st = RUNNING -> "SERVICE_STARTED"
      [] st = STOPPED -> "SERVICE_STOPPED"
      [] st = FAILED -> "SERVICE_CRASHED"
      [] OTHER -> ""

\* C15: when a call of the service manager returns and has moved a service
\* to RUNNING, STOPPED or FAILED, the matching lifecycle event
\* (SERVICE_STARTED, SERVICE_STOPPED, SERVICE_CRASHED) is in the queue of the
\* bus, for the subscribers to see at the next process().
C15_LifecycleEventsPublished ==
    phase = "done" /\ Len(pre) = Len(services) =>
        \A k \in 1..Len(services) :
            /\ services[k].state # pre[k].state
            /\ services[k].state \in {RUNNING, STOPPED, FAILED}
            => \E i \in 1..Len(Queue) :
                   Queue[i].type = LifecycleEvent(services[k].state)

\* the top-level call fn(name) on a registered service has returned
Returned(fn) ==
    /\ Done(fn)
    /\ op.name \in Registered(pre)

\* C16: stop(name) on a registered service that is not STOPPED or STOPPING
\* sets STOPPING, invokes the stop callback once, and ends STOPPED with
\* start_time 0 and result 0 if the callback succeeds, or FAILED with the
\* callback's failure as result and start_time untouched if it fails;
\* nothing else changes.
C16_Stop ==
    /\ At("stop", "call_cb") =>
          services[Top.idx].state = STOPPING
    /\ Returned("stop") /\ Svc(pre, op.name).state \notin {STOPPED, STOPPING} =>
          LET k == FindService(pre, op.name)
          IN  /\ Len(trace) = 1
              /\ trace[1].cb = "stop" /\ trace[1].name = op.name
              /\ ret = trace[1].res
              /\ IF trace[1].res = 0
                 THEN services = [pre EXCEPT ![k].state = STOPPED,
                                             ![k].start_time = 0]
                 ELSE services = [pre EXCEPT ![k].state = FAILED]

\* a service that was RESTARTING and had a start time has been stopped
C16_Witness ==
    /\ Returned("stop")
    /\ Svc(pre, op.name).state = RESTARTING
    /\ Svc(pre, op.name).start_time # 0
    /\ Svc(services, op.name).state = STOPPED
    /\ Svc(services, op.name).start_time = 0
    /\ ret = 0

\* C17: start on a RUNNING or STARTING service and stop on a STOPPED or
\* STOPPING service return 0, invoke no callback at all and leave every
\* field of every service as it was.
C17_Idempotent ==
    /\ Returned("start") /\ Svc(pre, op.name).state \in {RUNNING, STARTING} =>
          ret = 0 /\ trace = <<>> /\ services = pre
    /\ Returned("stop") /\ Svc(pre, op.name).state \in {STOPPED, STOPPING} =>
          ret = 0 /\ trace = <<>> /\ services = pre

\* start("A") has returned 0 at once on a STARTING service A whose
\* dependency B is not running
C17_Witness ==
    /\ Returned("start") /\ op.name = "A"
    /\ Svc(pre, "A").state = STARTING
    /\ Svc(pre, "B").state = STOPPED
    /\ ret = 0 /\ trace = <<>> /\ services = pre

Last(seq) == seq[Len(seq)]

\* the service is FAILED and the tick no longer restarts it
Exhausted(svc) ==
    /\ svc.state = FAILED
    /\ svc.max_restart_attempts > 0
    /\ svc.restart_count >= svc.max_restart_attempts

\* C18: restart(name) on a registered service is stop, then start.  A failed
\* stop ends the call: no start, the service FAILED, the stop's failure
\* returned.  After a successful stop a failed start leaves the service
\* FAILED.  restart returns 0 exactly when the service ends RUNNING.  All of
\* it holds as well for a FAILED service whose restart attempts are
\* exhausted: its stop callback runs, then its start is attempted, and its
\* restart_count is left alone.
C18_Restart ==
    Returned("restart") =>
        LET k == FindService(pre, op.name)
            skipped == pre[k].state \in {STOPPED, STOPPING}
            stopped == IF skipped THEN 0 ELSE trace[1].res
        IN  /\ ~skipped =>
                  /\ trace # <<>>
                  /\ trace[1].cb = "stop" /\ trace[1].name = op.name
            /\ stopped # 0 =>
                  /\ Len(trace) = 1
                  /\ ret = stopped
                  /\ services = [pre EXCEPT ![k].state = FAILED]
            /\ stopped = 0 =>
                  IF /\ trace # <<>>
                     /\ Last(trace).cb = "start"
                     /\ Last(trace).name = op.name
                  THEN /\ ret = Last(trace).res
                       /\ services[k].state =
                              IF ret = 0 THEN RUNNING ELSE FAILED
                  ELSE \* a dependency failed
                       ret # 0 /\ services[k].state = FAILED
            /\ ret = 0 <=> services[k].state = RUNNING
            /\ services[k].restart_count = pre[k].restart_count

\* restart has brought a service to RUNNING that was FAILED with its
\* restart attempts exhausted: stop callback, then start callback
C18_Witness ==
    /\ Returned("restart")
    /\ Exhausted(Svc(pre, op.name))
    /\ Svc(services, op.name).state = RUNNING
    /\ ret = 0
    /\ trace = << Invoked("stop", op.name, 0), Invoked("start", op.name, 0) >>

\* register called with the descriptor d
C19_RegisterStep ==
    \A d \in CallerDescriptors :
        Register(d) =>
            IF \/ ~initialized
               \/ \E k \in 1..Len(services) : services[k].name = d.name
               \/ Len(services) >= VGIK_SERVICE_MAX_SERVICES
            THEN ret' # 0 /\ services' = services
            ELSE /\ ret' = 0
                 /\ services' =
                       Append(services,
                              [d EXCEPT !.state = STOPPED,
                                        !.restart_count = 0,
                                        !.start_time = 0,
                                        !.last_restart_time = 0])

\* C19: register fails and leaves the registry as it was when the name is
\* already registered, when the table holds 64 services or when the manager
\* is not initialized; otherwise it appends a copy of the descriptor with
\* state STOPPED, restart_count 0, start_time 0 and last_restart_time 0,
\* whatever the caller's descriptor held in those fields.
C19_Register == [][C19_RegisterStep]_vars

\* register of a new name has been refused by a table of 64 services
C19_Witness ==
    /\ Done("register")
    /\ ret # 0
    /\ Len(pre) = VGIK_SERVICE_MAX_SERVICES
    /\ op.name \notin Registered(pre)
    /\ services = pre

\* C20: no two registered services have the same name, and there are
\* between 0 and 64 of them.
C20_UniqueNames ==
    /\ \A i, j \in 1..Len(services) :
          services[i].name = services[j].name => i = j
    /\ Len(services) \in 0..VGIK_SERVICE_MAX_SERVICES

\* a full table whose last entry was unregistered and registered again
C20_Witness ==
    /\ Idle
    /\ Len(services) = VGIK_SERVICE_MAX_SERVICES
    /\ services[VGIK_SERVICE_MAX_SERVICES].name = "1"
    /\ services[1].name = "2"

\* seq without its k-th element
Without(seq, k) ==
    SubSeq(seq, 1, k - 1) \o SubSeq(seq, k + 1, Len(seq))

\* C21: unregister(name) fails and changes nothing when the name is not
\* registered; otherwise it stops the service first (the stop callback is
\* invoked for a service in any state other than STOPPED/STOPPING, FAILED
\* included), then removes that entry and leaves the other entries in
\* their order with their fields unchanged.
C21_UnregisterStopsFirst ==
    Done("unregister") =>
        IF op.name \notin Registered(pre)
        THEN ret # 0 /\ services = pre
        ELSE LET k == FindService(pre, op.name)
             IN  /\ ret = 0
                 /\ services = Without(pre, k)
                 /\ pre[k].state \notin {STOPPED, STOPPING} =>
                       /\ Len(trace) = 1
                       /\ trace[1].cb = "stop"
                       /\ trace[1].name = op.name

\* the bulk calls and the call each of them makes per service
Bulk == { <<"start_all", "start">>, <<"stop_all", "stop">> }

\* one step of start_all or stop_all: the loop calls start (stop) on the
\* next service in registration order, whatever the earlier calls returned;
\* a call that returned 0 adds one to the count; the count is returned
C22_BulkStep ==
    \A b \in Bulk :
        /\ At(b[1], "entry") /\ Top.i <= Len(services) =>
              /\ Len(stack') = Len(stack) + 1
              /\ stack'[Len(stack')] = Frame(b[2], services[Top.i].name)
              /\ stack'[Len(stack)].i = Top.i
              /\ stack'[Len(stack)].cnt = Top.cnt
        /\ At(b[1], "after") =>
              /\ Len(stack') = Len(stack)
              /\ stack'[Len(stack)].i = Top.i + 1
              /\ stack'[Len(stack)].cnt =
                    IF ret = 0 THEN Top.cnt + 1 ELSE Top.cnt
        /\ At(b[1], "entry") /\ Top.i > Len(services) =>
              /\ ret' = Top.cnt
              /\ Len(stack') = Len(stack) - 1

\* while start_all or stop_all runs, the services before the loop index
\* have been visited, and the call on a service has just succeeded exactly
\* when the service is RUNNING (STOPPED)
C22_BulkState ==
    /\ \A b \in Bulk :
          \A d \in 1..Len(stack) :
              stack[d].fn = b[1] =>
                  /\ stack[d].i \in 1..(Len(services) + 1)
                  /\ stack[d].cnt <= stack[d].i - 1
    /\ At("start_all", "after") =>
          (ret = 0 <=> services[Top.i].state = RUNNING)
    /\ At("stop_all", "after") =>
          (ret = 0 <=> services[Top.i].state = STOPPED)
    /\ Done("stop_all") =>
          ret = Cardinality({ k \in 1..Len(services) :
                                services[k].state = STOPPED })

\* C22: start_all and stop_all call start (stop) on every registered
\* service in registration order, go on after a failure, and return the
\* number of calls that returned success.
C22_BulkCalls == []C22_BulkState /\ [][C22_BulkStep]_vars

\* start_all on the chain A -> B -> C, all STOPPED, has returned 3: the call
\* on A started C, B and A, the calls on B and C found them RUNNING
C22_Witness ==
    /\ Done("start_all")
    /\ IsChain(services)
    /\ ret = 3
    /\ trace = << Invoked("start", "C", 0), Invoked("start", "B", 0),
                  Invoked("start", "A", 0) >>
    /\ \A k \in 1..Len(pre) : pre[k].state = STOPPED

\* a step of a tick leaves every RUNNING service as it is, and the visit of
\* a RUNNING service asks its health callback and does nothing else
C23_TickStep ==
    op.fn = "process" /\ phase = "run" =>
        /\ Len(services') = Len(services)
        /\ \A k \in 1..Len(services) :
              services[k].state = RUNNING => services'[k] = services[k]
        /\ /\ At("process", "loop")
           /\ Top.i <= Len(services)
           /\ services[Top.i].state = RUNNING
           => /\ services' = services
              /\ Len(trace') = Len(trace) + 1
              /\ trace'[Len(trace')].cb = "health"
              /\ trace'[Len(trace')].name = services[Top.i].name

\* when the tick returns, the services that were RUNNING are as they were
\* and each has been asked for its health once
C23_TickDone ==
    Done("process") /\ initialized =>
        \A k \in 1..Len(pre) :
            pre[k].state = RUNNING =>
                /\ services[k] = pre[k]
                /\ Cardinality({ i \in 1..Len(trace) :
                                   /\ trace[i].cb = "health"
                                   /\ trace[i].name = pre[k].name }) = 1

\* C23: the tick asks the health callback of every service that is RUNNING
\* when visited and, whatever the answer, never changes the state,
\* restart_count or last_restart_time of a RUNNING service.
C23_HealthNoAction == []C23_TickDone /\ [][C23_TickStep]_vars

\* a tick has returned after a RUNNING service reported itself unhealthy
C23_Witness ==
    /\ Done("process")
    /\ \E i \in 1..Len(trace) :
          /\ trace[i] = Invoked("health", "B", 0)
          /\ Svc(pre, "B").state = RUNNING
          /\ Svc(services, "B") = Svc(pre, "B")

\* restart_count and last_restart_time of a service
Counters(svc) == <<svc.restart_count, svc.last_restart_time>>

\* a step changes the counters of a service that stays registered only as
\* the restart attempt of a tick on that service
C24_CounterStep ==
    \A i \in 1..Len(services), j \in 1..Len(services') :
        /\ services[i].name = services'[j].name
        /\ Counters(services'[j]) # Counters(services[i])
        => /\ At("process", "loop")
           /\ Top.i = i /\ j = i
           /\ services[i].state = FAILED /\ services[i].auto_restart
           /\ services'[i].state = RESTARTING
           /\ services'[i].restart_count = services[i].restart_count + 1
           /\ services'[i].last_restart_time = Top.now

\* a manual start, stop or restart has left all counters as they were
C24_ManualDone ==
    Done("start") \/ Done("stop") \/ Done("restart") =>
        /\ Len(services) = Len(pre)
        /\ \A k \in 1..Len(pre) : Counters(services[k]) = Counters(pre[k])

\* C24: restart_count and last_restart_time of a registered service change
\* only in an auto-restart attempt of the tick; manual start, stop and
\* restart leave them alone and a successful start never resets them, however
\* long the service then runs.
C24_CountersPersist == []C24_ManualDone /\ [][C24_CounterStep]_vars

\* a manual start has brought a service to RUNNING whose counters the tick
\* had raised, and they are still raised
C24_Witness ==
    /\ Done("start") /\ ret = 0
    /\ op.name \in Registered(pre)
    /\ Svc(pre, op.name).state = FAILED
    /\ Svc(services, op.name).state = RUNNING
    /\ Svc(services, op.name).restart_count > 0
    /\ Svc(services, op.name).last_restart_time > 0

\* the names a service lists as dependencies
DepsOf(svcs, n) ==
    IF n \in Registered(svcs)
    THEN { Svc(svcs, n).dependencies[j] :
             j \in 1..Len(Svc(svcs, n).dependencies) }
    ELSE {}

\* the names reachable from n along one dependency or more
Needs(svcs, n) == ReachFrom(svcs, DepsOf(svcs, n), Len(svcs))

\* the members of the dependency cycles through n
CycleOf(svcs, n) ==
    { m \in Needs(svcs, n) \cap Registered(svcs) : n \in Needs(svcs, m) }

\* start(name) is in progress or has returned, name is on a cycle and no
\* member of the cycle was RUNNING or STARTING when the call began
CycleStart ==
    /\ op.fn = "start" /\ phase # "idle"
    /\ op.name \in Registered(pre)
    /\ CycleOf(pre, op.name) # {}
    /\ \A m \in CycleOf(pre, op.name) :
          Svc(pre, m).state \notin {RUNNING, STARTING}

LatestId(g) ==
    CHOOSE n \in { g.subscriptions[k].id : k \in 1..SubSlots } :
        \A k \in 1..SubSlots : g.subscriptions[k].id <= n

ActiveSlots(g) == { k \in 1..SubSlots : g.subscriptions[k].active }

SubscribeStep == BusIdle /\ bop' = "subscribe"

\* what one call of subscribe does to the table and returns
C26_IdStep ==
    \A t \in {"CONFIG_CHANGED", VGIK_EVENT_CUSTOM}, hd \in {"quiet", "NULL"} :
        Subscribe(t, hd) =>
            IF \/ hd = "NULL"
               \/ ~g_events.initialized
               \/ ActiveSlots(g_events) = 1..SubSlots
            THEN bret' < 0 /\ g_events' = g_events
            ELSE /\ bret' = LatestId(g_events) + 1
                 /\ g_events'.next_subscription_id = bret' + 1
                 /\ \E k \in 1..SubSlots \ ActiveSlots(g_events) :
                       g_events'.subscriptions =
                           [g_events.subscriptions EXCEPT
                              ![k] = [id |-> bret', type |-> t,
                                      handler |-> hd, active |-> TRUE]]

\* the ids in the table are those handed out so far, each at most once
C26_IdsDistinct ==
    /\ LatestId(g_events) = g_events.next_subscription_id - 1
    /\ \A j, k \in 1..SubSlots :
          (j # k /\ g_events.subscriptions[j].id # 0) =>
              g_events.subscriptions[j].id # g_events.subscriptions[k].id

\* C26: a successful subscribe returns the id after the one the latest
\* successful subscribe returned, 1 the first time, whatever was
\* unsubscribed, refused or deinitialized in between, so that no id is
\* handed out twice; subscribe returns a negative value and leaves the
\* event system unchanged when every slot is active, when the handler is
\* null or when the system is not initialized, and only then.
C26_SubscribeIds == []C26_IdsDistinct /\ [][C26_IdStep]_vars

\* id 3 is handed out after id 1 was unsubscribed, into the slot id 1 had,
\* and the table is full again
C26_Witness ==
    /\ bphase = "done" /\ bop = "subscribe" /\ bret = 3
    /\ g_events.subscriptions[1].id = 3
    /\ g_events.subscriptions[2].id = 2
    /\ ActiveSlots(g_events) = 1..SubSlots

\* what one call of unsubscribe does to the table and returns
C27_UnsubscribeStep ==
    \A id \in 1..MaxSubIds :
        Unsubscribe(id) =>
            IF \E k \in ActiveSlots(g_events) :
                   g_events.subscriptions[k].id = id
            THEN /\ bret' = 0
                 /\ \E k \in ActiveSlots(g_events) :
                       /\ g_events.subscriptions[k].id = id
                       /\ g_events' =
                             [g_events EXCEPT
                                !.subscriptions[k].active = FALSE]
            ELSE bret' # 0 /\ g_events' = g_events

\* the subscription with this id was unsubscribed
Retired(id) ==
    \E k \in 1..SubSlots :
        /\ g_events.subscriptions[k].id = id
        /\ ~g_events.subscriptions[k].active

\* no handler invocation of the process() under way is for this id
Silent(id) == \A i \in 1..Len(delivered) : delivered[i].id # id

\* C27: unsubscribe(id) returns 0 exactly when an active subscription has
\* the id, and then clears the active flag of that subscription and
\* nothing else; otherwise it fails and changes nothing.  From the moment
\* a subscription is unsubscribed on, no process() invokes its handler,
\* whatever was queued at that moment and whoever takes its slot later.
C27_Unsubscribe ==
    /\ [][C27_UnsubscribeStep]_vars
    /\ \A id \in 1..MaxSubIds : [](Retired(id) => []Silent(id))

\* unsubscribe has just deactivated a subscription while an event that
\* matches it is at the head of the queue, and another subscription stays
C27_Witness ==
    /\ bphase = "done" /\ bop = "unsubscribe" /\ bret = 0
    /\ g_events.queue_size > 0
    /\ ActiveSlots(g_events) # {}
    /\ \E k \in 1..SubSlots \ ActiveSlots(g_events) :
          /\ g_events.subscriptions[k].id # 0
          /\ g_events.subscriptions[k].type
                 \in {VGIK_EVENT_CUSTOM,
                      heap[g_events.queue_head].event.type}

\* a successful subscribe fills the first inactive slot
C28_SlotStep ==
    (SubscribeStep /\ bret' > 0) =>
        \E k \in 1..SubSlots :
            /\ ~g_events.subscriptions[k].active
            /\ \A j \in 1..(k - 1) : g_events.subscriptions[j].active
            /\ g_events'.subscriptions[k].active
            /\ g_events'.subscriptions[k].id = bret'

\* the handler invocations for one event come in ascending slot order,
\* each by the subscription that sits in the slot
C28_SlotOrder ==
    /\ \A i, j \in 1..Len(delivered) :
          (i < j /\ delivered[i].source = delivered[j].source) =>
              delivered[i].slot < delivered[j].slot
    /\ \A i \in 1..Len(delivered) :
          g_events.subscriptions[delivered[i].slot].id = delivered[i].id

\* C28: subscribe puts the subscription in the inactive slot of lowest
\* index, and process() invokes the handlers that match one event in
\* ascending slot order, so that a subscription in a freed low slot is
\* invoked before older subscriptions in higher slots.
C28_LowestSlot == []C28_SlotOrder /\ [][C28_SlotStep]_vars

\* the subscription with id 3 took slot 1 after id 1 left it and process()
\* handed an event to it before the older subscription with id 2 in slot 2
C28_Witness ==
    /\ bop = "process" /\ bphase = "done"
    /\ Len(delivered) >= 2
    /\ delivered[1].id = 3 /\ delivered[1].slot = 1
    /\ delivered[2].id = 2 /\ delivered[2].slot = 2
    /\ delivered[1].source = delivered[2].source

ClearStep == BusIdle /\ bop' = "clear"

\* what one call of clear does
C29_ClearStep ==
    ClearStep =>
        /\ g_events'.queue_size = 0
        /\ g_events'.queue_head = NULL
        /\ g_events'.subscriptions = g_events.subscriptions
        /\ g_events'.next_subscription_id = g_events.next_subscription_id
        /\ g_events'.initialized = g_events.initialized
        /\ delivered' = <<>> /\ drained' = <<>>

\* process() on a queue of size 0 returns 0 and invokes no handler
C29_EmptyTurn ==
    (bphase = "drain" /\ processed = 0 /\ g_events.queue_size = 0) =>
        /\ bphase' = "done" /\ bret' = 0
        /\ delivered' = <<>>
        /\ g_events' = g_events

\* C29: clear() leaves the queue at size 0 and the subscriptions and the
\* next subscription id as they were, invokes no handler, and a process()
\* that follows finds nothing: it returns 0.
C29_Clear == [][C29_ClearStep /\ C29_EmptyTurn]_vars

\* clear has returned, two events that an active subscription matches were
\* in the queue and are gone
C29_Witness ==
    /\ bphase = "done" /\ bop = "clear"
    /\ published = 2
    /\ g_events.queue_size = 0
    /\ \E k \in ActiveSlots(g_events) :
          g_events.subscriptions[k].type = VGIK_EVENT_CUSTOM

QueryStep == Idle /\ op'.fn \in {"get_state", "is_healthy"}

\* a query leaves the manager, the clock and the event system as they are
C30_QueryStep == QueryStep => UNCHANGED <<initialized, services, clock, outside>>

\* what a query returns
C30_QueryDone ==
    /\ Done("get_state") =>
          ret = IF op.name \in Registered(services)
                THEN StateCode(Svc(services, op.name).state)
                ELSE StateCode(FAILED)
    /\ Done("is_healthy") =>
          IF op.name \notin Registered(services) THEN ret = 0 /\ trace = <<>>
          ELSE IF Svc(services, op.name).state # RUNNING
               THEN ret = 0 /\ trace = <<>>
          ELSE IF Svc(services, op.name).health_cb
               THEN /\ Len(trace) = 1
                    /\ trace[1].cb = "health" /\ trace[1].name = op.name
                    /\ ret = trace[1].res
               ELSE ret = 1 /\ trace = <<>>

\* C30: get_state and is_healthy change nothing.  get_state(name) returns
\* the state of the service, FAILED for a name that is not registered.
\* is_healthy(name) is false for a name that is not registered and for a
\* service that is not RUNNING, is what the health callback returns for a
\* RUNNING service that has one, and is true for a RUNNING service without.
C30_Queries == []C30_QueryDone /\ [][C30_QueryStep]_vars

\* is_healthy("A") has asked the health callback of the RUNNING service A
\* and returned its answer, false
C30_Witness ==
    /\ Done("is_healthy") /\ op.name = "A"
    /\ Svc(services, "A").state = RUNNING
    /\ Len(trace) = 1 /\ trace[1].res = 0 /\ ret = 0

\* C31: while no call of the manager is under way, every registered service
\* is STOPPED, RUNNING or FAILED; STARTING, STOPPING and RESTARTING last
\* only for the time of a call.
C31_NoTransientAtRest ==
    phase \in {"idle", "done"} =>
        \A k \in 1..Len(services) :
            services[k].state \in {STOPPED, RUNNING, FAILED}

\* a tick has returned after it took a FAILED service through RESTARTING
\* and STARTING, and the start callback failed again
C31_Witness ==
    /\ Done("process")
    /\ \E k \in 1..Len(services) :
          /\ k <= Len(pre)
          /\ pre[k].state = FAILED
          /\ services[k].restart_count = pre[k].restart_count + 1
          /\ services[k].state = FAILED
          /\ \E t \in 1..Len(trace) :
                /\ trace[t].cb = "start" /\ trace[t].name = services[k].name
                /\ trace[t].res # 0

\* the nodes linked from node n on
RECURSIVE NodesFrom(_, _)
NodesFrom(h, n) ==
    IF n = NULL THEN <<>> ELSE <<n>> \o NodesFrom(h, h[n].next)

QueueNodes == NodesFrom(heap, g_events.queue_head)

\* C32: queue_size is the number of nodes linked from queue_head and lies
\* in 0..QueueCap, the priorities do not increase from head to tail, and
\* queue_tail is the last node, null exactly when the queue is empty.
C32_QueueShape ==
    /\ g_events.queue_size = Len(QueueNodes)
    /\ g_events.queue_size \in 0..QueueCap
    /\ \A i, j \in 1..Len(QueueNodes) :
          i < j => heap[QueueNodes[i]].event.priority
                      >= heap[QueueNodes[j]].event.priority
    /\ g_events.queue_tail =
          IF QueueNodes = <<>> THEN NULL ELSE QueueNodes[Len(QueueNodes)]
    /\ (g_events.queue_tail = NULL) = (g_events.queue_size = 0)

\* a publish has filled the queue, from CRITICAL at the head to LOW at the
\* tail, and the node at the head was allocated after the node at the tail
C32_Witness ==
    /\ g_events.queue_size = QueueCap
    /\ heap[g_events.queue_head].event.priority = VGIK_EVENT_PRIORITY_CRITICAL
    /\ heap[g_events.queue_tail].event.priority = VGIK_EVENT_PRIORITY_LOW
    /\ g_events.queue_head > g_events.queue_tail
    /\ bphase = "done" /\ bop = "publish" /\ bret = 0

PoolNodes == NodesFrom(heap, g_events.node_pool)

Members(seq) == { seq[i] : i \in 1..Len(seq) }

\* every node is in the queue or in the pool, none in both, none twice, and
\* there are QueueCap nodes at most
C33_NodesAccounted ==
    /\ Members(QueueNodes) \cap Members(PoolNodes) = {}
    /\ Members(QueueNodes) \cup Members(PoolNodes) = DOMAIN heap
    /\ Cardinality(DOMAIN heap) = Len(QueueNodes) + Len(PoolNodes)
    /\ Cardinality(DOMAIN heap) <= QueueCap

\* a publish that queues an event uses the node at the head of the pool and
\* allocates only when the pool is empty; a process turn that takes an event
\* puts its node at the head of the pool
C33_RecycleStep ==
    /\ (PublishStep /\ bret' = 0) =>
          IF g_events.node_pool # NULL
          THEN /\ DOMAIN heap' = DOMAIN heap
               /\ g_events.node_pool \in Members(QueueNodes')
               /\ g_events'.node_pool = heap[g_events.node_pool].next
          ELSE /\ Cardinality(DOMAIN heap') = Cardinality(DOMAIN heap) + 1
               /\ g_events'.node_pool = NULL
    /\ (bphase = "drain" /\ g_events.queue_head # NULL) =>
          /\ DOMAIN heap' = DOMAIN heap
          /\ g_events'.node_pool = g_events.queue_head
          /\ heap'[g_events.queue_head].next = g_events.node_pool

\* C33: the nodes are recycled through the pool: a dequeued node goes to
\* the pool, enqueue reuses a pooled node whenever there is one and
\* allocates only when the pool is empty, no node is queued and pooled at
\* once, and so no more than QueueCap nodes exist at any time.
C33_NodePool == []C33_NodesAccounted /\ [][C33_RecycleStep]_vars

\* a publish has queued an event while QueueCap nodes exist and the pool
\* still holds one: the event sits in a node that came from the pool
C33_Witness ==
    /\ bphase = "done" /\ bop = "publish" /\ bret = 0
    /\ Cardinality(DOMAIN heap) = QueueCap
    /\ g_events.node_pool # NULL
    /\ g_events.queue_size >= 1

\* some service is RUNNING while a dependency of it is STOPPED or FAILED
RunningOverStopped ==
    \E k \in 1..Len(services) :
        /\ services[k].state = RUNNING
        /\ \E j \in 1..Len(services[k].dependencies) :
              /\ services[k].dependencies[j] \in Registered(services)
              /\ Svc(services, services[k].dependencies[j]).state
                     \in {STOPPED, FAILED}

\* C34: stop(name) leaves every other service as it was, those that depend
\* on the named one included, and invokes no callback but the stop callback
\* of the named service.
C34_StopOnlyNamed ==
    Done("stop") =>
        /\ Len(services) = Len(pre)
        /\ \A k \in 1..Len(services) :
              services[k].name # op.name => services[k] = pre[k]
        /\ \A t \in 1..Len(trace) :
              trace[t].cb = "stop" /\ trace[t].name = op.name

\* stop("B") has stopped B, or left it FAILED, under A, which depends on B
\* and is still RUNNING
C34_Witness ==
    /\ Done("stop") /\ op.name = "B"
    /\ trace # <<>>
    /\ "A" \in Registered(services)
    /\ Svc(services, "A").state = RUNNING
    /\ Svc(services, "A").dependencies = <<"B">>
    /\ RunningOverStopped

\* stop_all is under way and has stopped B, registered first, while A, which
\* depends on B, is still RUNNING
DuringStopAll ==
    /\ op.fn = "stop_all" /\ phase = "run"
    /\ RunningOverStopped

\* the restart policy of the tick does not select the service: it is
\* STOPPED, or FAILED with auto_restart off
Unselected(svc) ==
    \/ svc.state = STOPPED
    \/ svc.state = FAILED /\ ~svc.auto_restart

\* C35: a tick leaves every service that is STOPPED, or FAILED with
\* auto_restart off, as it was and invokes none of its callbacks, whatever
\* other services are registered.
C35_TickLeavesUnselected ==
    Done("process") =>
        \A k \in 1..Len(pre) :
            Unselected(pre[k]) =>
                /\ services[k] = pre[k]
                /\ \A t \in 1..Len(trace) : trace[t].name # pre[k].name

\* the tick makes a restart attempt on the service it is visiting
AttemptStep ==
    /\ At("process", "loop")
    /\ Top.i <= Len(services)
    /\ Len(services') = Len(services)
    /\ services'[Top.i].restart_count = services[Top.i].restart_count + 1

\* C36: when the tick makes a restart attempt on a service on which it made
\* one before, the time since that attempt, made at the time recorded in
\* last_restart_time, is at least the restart delay of the service.
C36_Backoff ==
    [][(AttemptStep /\ services[Top.i].restart_count >= 1) =>
          Top.now - services[Top.i].last_restart_time
              >= services[Top.i].restart_delay_ms]_vars

\* the restart attempts the tick may make on the service: its limit, at
\* least CountCap when it has none
AttemptsDue(svc) ==
    IF svc.max_restart_attempts > 0 THEN svc.restart_count = svc.max_restart_attempts
    ELSE svc.restart_count >= CountCap

\* the service has come to run, or the attempts are used up and it is FAILED
Settled ==
    \/ services[1].state = RUNNING /\ ~services[1].start_fails
    \/ services[1].state = FAILED /\ AttemptsDue(services[1])

\* a tick whose restart attempt succeeded leaves the service RUNNING; the
\* attempts never exceed a limit
C37_AttemptOutcome ==
    /\ (Done("process") /\ \E t \in 1..Len(trace) :
                               trace[t].cb = "start" /\ trace[t].res = 0)
          => services[1].state = RUNNING
    /\ services[1].max_restart_attempts > 0 =>
          services[1].restart_count <= services[1].max_restart_attempts

\* a tick on a FAILED service that has used up its limit changes nothing
C37_ExhaustedStep ==
    (op.fn = "process" /\ services[1].state = FAILED
        /\ services[1].max_restart_attempts > 0
        /\ services[1].restart_count = services[1].max_restart_attempts) =>
    services' = services

\* C37: as the loop ticks and time passes, a FAILED service without
\* dependencies and with auto_restart is attempted again until it runs or
\* its attempts are used up: with a start callback that always fails and a
\* limit N > 0 it ends FAILED with restart_count = N for good after exactly
\* N attempts, without a limit the attempts go on (to CountCap and beyond),
\* and an attempt whose callback succeeds makes it RUNNING.
C37_RestartProgress ==
    /\ []C37_AttemptOutcome
    /\ [][C37_ExhaustedStep]_vars
    /\ <>[]Settled

\* the always failing service with limit CountCap has been attempted
\* CountCap times, the last time after a tick that came too early, and a
\* later tick has left it alone
C37_Witness ==
    /\ Done("process") /\ trace = <<>>
    /\ services = pre
    /\ services[1].start_fails
    /\ services[1].restart_delay_ms > 1
    /\ services[1].state = FAILED
    /\ services[1].max_restart_attempts = CountCap
    /\ services[1].restart_count = CountCap
    /\ script = 2 * LoopTicks

\* handler invocations of the drain in which the handler published
PublishedInDrain ==
    { i \in 1..Len(delivered) :
        g_events.subscriptions[delivered[i].slot].handler \in Publishing }

\* C38: process() returns after it dispatched the events that were queued
\* when it was called; the events that handlers published during the drain
\* are still queued when it returns, one for each invocation of a
\* publishing handler.
C38_DrainOnlyQueued ==
    (bop = "process" /\ bphase = "done") =>
        g_events.queue_size >= Cardinality(PublishedInDrain)

\* start_all has returned and no callback it invoked failed
CleanStartAll ==
    /\ Done("start_all")
    /\ \A t \in 1..Len(trace) : trace[t].res = 0

C39_StartAllOnce ==
    CleanStartAll =>
        \A n \in Registered(pre) :
            IF Svc(pre, n).state = RUNNING
            THEN StartCalls(n) = {} /\ Svc(services, n) = Svc(pre, n)
            ELSE IF Needs(pre, n) \subseteq Registered(pre)
            THEN /\ Cardinality(StartCalls(n)) = 1
                 /\ Svc(services, n).state = RUNNING
            ELSE /\ StartCalls(n) = {}
                 /\ Svc(services, n).state = FAILED

-----------------------------------------------------------------------------
(* Two threads inside vgik_event_publish.  The event system has no lock:
   the statements of enqueue_event (events.c lines 110-169) of one thread
   interleave with those of the other.  Each thread publishes once, an event
   without payload; its locals are threads[t]. *)

\* the queue lengths the threads find: empty, and one short of the capacity
RaceLoads == {0, QueueCap - 1}

\* the priorities of the two events: one joins the events of its priority at
\* the back, one overtakes them
RacePriorities == {VGIK_EVENT_PRIORITY_NORMAL, VGIK_EVENT_PRIORITY_HIGH}

\* the event system after n events of normal priority were published one
\* after the other: [g, h]
RECURSIVE Preloaded(_)
Preloaded(n) ==
    IF n = 0
    THEN [g |-> [EventsZero EXCEPT !.initialized = TRUE], h |-> << >>]
    ELSE LET before == Preloaded(n - 1)
             r == Enqueue(before.g, before.h,
                          Event("CONFIG_CHANGED", VGIK_EVENT_PRIORITY_NORMAL,
                                FALSE, n),
                          T0, "ok")
         IN  [g |-> r.g, h |-> r.h]

InitRace ==
    /\ initialized = FALSE
    /\ services = <<>>
    /\ clock = T0
    /\ stack = <<>>
    /\ ret = 0
    /\ phase = "idle"
    /\ op = [fn |-> "", name |-> ""]
    /\ pre = <<>>
    /\ trace = <<>>
    /\ script = 0
    /\ \E n \in RaceLoads :
          /\ g_events = Preloaded(n).g
          /\ heap = Preloaded(n).h
          /\ published = n
    /\ bphase = "idle"
    /\ bop = ""
    /\ bret = 0
    /\ processed = 0
    /\ drained = <<>>
    /\ delivered = <<>>
    /\ threads = NoThreads

\* the thread is between the first and the last statement of publish
Busy(th) == th.pc \notin {"out", "back"}

\* thread t goes on with the locals now; met records that the two calls
\* were in progress at the same time
Moved(t, now) ==
    LET next == [threads EXCEPT ![t] = now]
        both == \A u \in Threads : Busy(next[u])
    IN  /\ threads' = [u \in Threads |->
                          [next[u] EXCEPT !.met = next[u].met \/ both]]
        /\ UNCHANGED <<svars, script, bphase, bop, bret, processed, drained,
                       delivered, published>>

\* thread t returns r from vgik_event_publish
Back(t, r) == Moved(t, [threads[t] EXCEPT !.pc = "back", !.result = r])

\* vgik_event_publish, line 274
RacePublish(t) ==
    /\ threads[t].pc = "out"
    /\ \E p \in RacePriorities :
          IF g_events.initialized
          THEN Moved(t, [threads[t] EXCEPT !.pc = "check", !.priority = p])
          ELSE Back(t, -1)
    /\ UNCHANGED <<g_events, heap>>

\* enqueue_event, lines 111-114: the capacity check
RaceCheck(t) ==
    /\ threads[t].pc = "check"
    /\ IF QueueFull(g_events)
       THEN Back(t, -1)
       ELSE Moved(t, [threads[t] EXCEPT !.pc = "node"])
    /\ UNCHANGED <<g_events, heap>>

\* lines 116-137: the node (no node is pooled: malloc, which may fail) and
\* the copy of the event into it; the node is still private to the thread
RaceNode(t) ==
    /\ threads[t].pc = "node"
    /\ ~Pooled(g_events)
    /\ \E mem \in {"ok", "node"} :
          IF mem = "node"
          THEN Back(t, -1) /\ UNCHANGED heap
          ELSE LET node == Fresh(heap)
                   ev == [Event("CONFIG_CHANGED", threads[t].priority, FALSE,
                                t) EXCEPT !.timestamp = clock]
               IN  /\ heap' = Store(heap, node, [event |-> ev, next |-> NULL])
                   /\ Moved(t, [threads[t] EXCEPT !.pc = "head",
                                                  !.node = node])
    /\ UNCHANGED g_events

\* line 140: is the queue empty?
RaceHead(t) ==
    /\ threads[t].pc = "head"
    /\ Moved(t, [threads[t] EXCEPT
                    !.pc = IF g_events.queue_head = NULL THEN "empty_head"
                           ELSE "first"])
    /\ UNCHANGED <<g_events, heap>>

\* line 142
RaceEmptyHead(t) ==
    /\ threads[t].pc = "empty_head"
    /\ g_events' = [g_events EXCEPT !.queue_head = threads[t].node]
    /\ Moved(t, [threads[t] EXCEPT !.pc = "empty_tail"])
    /\ UNCHANGED heap

\* line 143
RaceEmptyTail(t) ==
    /\ threads[t].pc = "empty_tail"
    /\ g_events' = [g_events EXCEPT !.queue_tail = threads[t].node]
    /\ Moved(t, [threads[t] EXCEPT !.pc = "load"])
    /\ UNCHANGED heap

\* lines 146-147
RaceFirst(t) ==
    /\ threads[t].pc = "first"
    /\ Moved(t, [threads[t] EXCEPT !.pc = "scan", !.prev = NULL,
                                   !.current = g_events.queue_head])
    /\ UNCHANGED <<g_events, heap>>

\* lines 149-154: one evaluation of the loop condition, then the loop body
\* or the choice of where the node goes
RaceScan(t) ==
    LET th == threads[t]
    IN  /\ th.pc = "scan"
        /\ IF /\ th.current # NULL
              /\ KeepsAhead(heap[th.current].event.priority, th.priority)
           THEN Moved(t, [th EXCEPT !.prev = th.current,
                                    !.current = heap[th.current].next])
           ELSE Moved(t, [th EXCEPT !.pc = IF th.prev # NULL THEN "link_next"
                                           ELSE "front_next"])
        /\ UNCHANGED <<g_events, heap>>

\* line 155
RaceLinkNext(t) ==
    LET th == threads[t]
    IN  /\ th.pc = "link_next"
        /\ heap' = [heap EXCEPT ![th.node].next = heap[th.prev].next]
        /\ Moved(t, [th EXCEPT !.pc = "link_prev"])
        /\ UNCHANGED g_events

\* line 156
RaceLinkPrev(t) ==
    LET th == threads[t]
    IN  /\ th.pc = "link_prev"
        /\ heap' = [heap EXCEPT ![th.prev].next = th.node]
        /\ Moved(t, [th EXCEPT !.pc = "link_tail"])
        /\ UNCHANGED g_events

\* lines 157-159
RaceLinkTail(t) ==
    LET th == threads[t]
    IN  /\ th.pc = "link_tail"
        /\ g_events' = IF heap[th.node].next = NULL
                       THEN [g_events EXCEPT !.queue_tail = th.node]
                       ELSE g_events
        /\ Moved(t, [th EXCEPT !.pc = "load"])
        /\ UNCHANGED heap

\* line 162
RaceFrontNext(t) ==
    LET th == threads[t]
    IN  /\ th.pc = "front_next"
        /\ heap' = [heap EXCEPT ![th.node].next = g_events.queue_head]
        /\ Moved(t, [th EXCEPT !.pc = "front_head"])
        /\ UNCHANGED g_events

\* line 163
RaceFrontHead(t) ==
    /\ threads[t].pc = "front_head"
    /\ g_events' = [g_events EXCEPT !.queue_head = threads[t].node]
    /\ Moved(t, [threads[t] EXCEPT !.pc = "load"])
    /\ UNCHANGED heap

\* line 167, queue_size++: the read
RaceLoad(t) ==
    /\ threads[t].pc = "load"
    /\ Moved(t, [threads[t] EXCEPT !.pc = "store",
                                   !.size = g_events.queue_size])
    /\ UNCHANGED <<g_events, heap>>

\* line 167, queue_size++: the write; lines 168 and 279-283: return 0
RaceStore(t) ==
    /\ threads[t].pc = "store"
    /\ g_events' = [g_events EXCEPT !.queue_size = threads[t].size + 1]
    /\ Back(t, 0)
    /\ UNCHANGED heap

NextRace ==
    \E t \in Threads :
        \/ RacePublish(t)
        \/ RaceCheck(t)
        \/ RaceNode(t)
        \/ RaceHead(t)
        \/ RaceEmptyHead(t)
        \/ RaceEmptyTail(t)
        \/ RaceFirst(t)
        \/ RaceScan(t)
        \/ RaceLinkNext(t)
        \/ RaceLinkPrev(t)
        \/ RaceLinkTail(t)
        \/ RaceFrontNext(t)
        \/ RaceFrontHead(t)
        \/ RaceLoad(t)
        \/ RaceStore(t)

SpecRace == InitRace /\ [][NextRace]_vars

\* both calls have returned, or have not begun
AtRest == \A t \in Threads : ~Busy(threads[t])

\* the two calls were in progress at the same time
Overlapped == \E t \in Threads : threads[t].met

\* the queue holds more events than its capacity, or queue_size is not the
\* number of events linked from queue_head
BoundBroken ==
    \/ Len(QueueNodes) > QueueCap
    \/ g_events.queue_size # Len(QueueNodes)

\* C40: the queue bound rests on calls running one at a time: once the calls
\* have returned, a queue of more than QueueCap events, or a queue_size that
\* is not the length of the list, is found only when the two calls to
\* publish were in progress at the same time.
C40_BoundNeedsOneAtATime == (AtRest /\ BoundBroken) => Overlapped

\* both threads published onto a queue of QueueCap - 1 events, both passed
\* the capacity check and both enqueued: QueueCap + 1 events are queued
C40_Witness ==
    /\ \A t \in Threads : threads[t].pc = "back" /\ threads[t].result = 0
    /\ Len(QueueNodes) > QueueCap

\* the interleaving loses an increment or a node: both calls returned 0 and
\* queue_size is not the length of the list
C40_SizeDiffers ==
    /\ \A t \in Threads : threads[t].pc = "back" /\ threads[t].result = 0
    /\ g_events.queue_size # Len(QueueNodes)

\* the calls ran one after the other onto QueueCap - 1 events: the second
\* was refused and the queue holds QueueCap events
C40_OneAtATime ==
    /\ \A t \in Threads : threads[t].pc = "back" /\ ~threads[t].met
    /\ \E t \in Threads : threads[t].result = -1
    /\ g_events.queue_size = QueueCap
    /\ Len(QueueNodes) = QueueCap

=============================================================================
